---- MODULE Spec2Model ----
(***************************************************************************)
(* Model of the xtend_tuya multi-manager core:                             *)
(*   - XTThread / XTThreadingManager (shared/threading.py): the job runner *)
(*   - MultiManager.update_device_cache and the pending-message buffer     *)
(*     (multi_manager.py), MessageHandler.on_message (message_handler.py)  *)
(*                                                                         *)
(* Threads of the program are modelled by their positions: `pc` is the     *)
(* position of the thread that calls start_and_wait, `thread[j]` is the    *)
(* life cycle of job thread j, `mm_pc` is the position of the thread that  *)
(* calls update_device_cache.                                              *)
(***************************************************************************)
EXTENDS Integers, Sequences, FiniteSets, TLC

\* ------------------------------------------------------------------ bounds
MaxJobs == 3
MaxCap == 2
MaxMsgs == 3
MaxCycles == 2
\* nested __setattr__ calls after which Python raises RecursionError
MaxDepth == 5

JobIds == 1..MaxJobs
\* MultiManager.accounts: two source adapters, in the order of the dict
Accounts == {1, 2}
AccountList == <<1, 2>>
\* device ids the adapters report
DeviceIds == {"dev1"}

\* max_concurrency = None
NoCap == -1
\* caps a client following the runner's contract passes: unset, or k >= 1
Caps == {NoCap} \cup (1..MaxCap)

VARIABLES
    \* XTThreadingManager
    thread_queue,           \* list of job ids
    thread_active_list,     \* list of job ids
    thread_finished_list,   \* list of job ids
    max_concurrency,        \* NoCap or a number
    thread,                 \* job id -> "unborn" | "new" | "alive" | "ok" | "failed"
    pc,                     \* position of the caller inside start_and_wait
    ret,                    \* where start_all_threads returns to
    active_copy,            \* clean_finished_threads: rest of the copied list
    at_least_one_thread_removed,
    result,                 \* how the last start_and_wait ended
    batch,                  \* jobs pending when start_and_wait was called
    delivered,              \* jobs whose captured exception was raised to the caller
    \* MultiManager
    is_ready_for_messages,
    pending_messages,       \* list of messages
    live_log,               \* messages that went through the Live path, in order
    status_lists,           \* calls of register_status_list_from_source, in order
    account_messages,       \* messages handed to accounts[source].on_message, in order
    was_buffered,           \* serial numbers of messages that were buffered
    in_flight,              \* messages whose on_message found Buffering and has not appended yet
    nmsgs,                  \* number of messages delivered so far
    source_map,             \* account -> set of device ids of its device map
    master_device_map,      \* device id -> account whose record it holds, 0 = absent
    registered_maps,        \* XTDeviceMap.master_device_map: list of maps (0 = master)
    mm_pc,                  \* position inside update_device_cache
    mm_result,              \* how the last update_device_cache ended
    cycle,                  \* number of update_device_cache calls so far
    \* XTDevice / XTDeviceMap objects
    devices,                \* record object -> its attributes
    data,                   \* map object (0 = master) -> device id -> record object, 0 = no entry
    last_op,                \* the last operation a client of the records made
    map_priority,           \* account -> device_source_priority of its device map
    premerge,               \* the records as the refresh jobs of the cycle left them
    \* local strategies
    strategy_devices,       \* record -> its local strategy attributes
    strategy_dicts,         \* LocalStrategyDict object -> its device and items
    \* XTMergingManager
    smart,                  \* the arguments and the result of a smart_merge call
    \* MessageHandler, status items
    resolved                \* the last call that resolved status items, and its result

runnerVars == <<thread_queue, thread_active_list, thread_finished_list,
                max_concurrency, thread, pc, ret, active_copy,
                at_least_one_thread_removed, result, batch, delivered>>
mmVars == <<is_ready_for_messages, pending_messages, live_log, status_lists, account_messages, was_buffered,
            in_flight, nmsgs, source_map, master_device_map, registered_maps, mm_pc,
            mm_result, cycle>>
strategyVars == <<strategy_devices, strategy_dicts>>
recVars == <<devices, data, last_op, map_priority, premerge, strategyVars, smart,
             resolved>>
vars == <<runnerVars, mmVars, recVars>>

\* ------------------------------------------------------------- helpers
Range(s) == {s[i] : i \in 1..Len(s)}

RECURSIVE Remove(_, _)
\* list.remove(x): drops the first occurrence
Remove(s, x) ==
    IF s = <<>> THEN <<>>
    ELSE IF Head(s) = x THEN Tail(s)
    ELSE <<Head(s)>> \o Remove(Tail(s), x)

\* ================================================ XTDevice / XTDeviceMap
\* accounts of the record-level refresh cycle, in the order of the dict
CycleAccounts == <<1, 2, 3>>
\* XTDeviceMap objects: 0 is MultiManager.master_device_map, the others are
\* the device maps of the accounts
MapIds == {0} \cup Range(CycleAccounts)
\* XTDevice.device_source_priority = None
NoPriority == -1
\* data[m][d] = NoDevice: the map has no entry for the id
NoDevice == 0
\* XTDevice.device_map = None
NoMap == -1
\* an attribute the object does not have
Absent == "absent"

FIELDS_TO_EXCLUDE_FROM_SYNC_NoSource ==
    {"id", "device_map", "device_source_priority", "original_device",
     "code_to_dpid", "dpid_to_code", "_local_strategy",
     "_local_strategy_version", "_local_strategy_cache_version"}

FIELDS_TO_EXCLUDE_FROM_SYNC ==
    {"id", "device_map", "device_source_priority", "original_device", "source",
     "code_to_dpid", "dpid_to_code", "_local_strategy",
     "_local_strategy_version", "_local_strategy_cache_version"}

\* hasattr(device, key): XTDevice.__init__ sets every attribute of the model
\* but "extra", an attribute that only some objects carry
hasattr(device, key) == key # "extra" \/ device.extra # Absent

\* UserDict.get(device_id)
MapGet(m, device_id) == data[m][device_id]

RECURSIVE XTDevice_setattr(_, _, _, _)
RECURSIVE set_device_key_value_multimap(_, _, _, _, _)

\* XTDeviceMap.set_device_key_value on map m: the record the map holds under
\* the id is assigned with setattr when it has the attribute with another value
set_device_key_value(heap, m, device_id, key, value) ==
    IF key \in FIELDS_TO_EXCLUDE_FROM_SYNC THEN heap
    ELSE LET device == MapGet(m, device_id) IN
         IF /\ device # NoDevice
            /\ hasattr(heap[device], key)
            /\ heap[device][key] # value
         THEN XTDevice_setattr(heap, device, key, value)
         ELSE heap

set_device_key_value_multimap_FirstMapOnly(heap, maps, device_id, key, value) ==
    IF key \in FIELDS_TO_EXCLUDE_FROM_SYNC \/ maps = <<>> THEN heap
    ELSE set_device_key_value(heap, Head(maps), device_id, key, value)

\* XTDeviceMap.set_device_key_value_multimap: the loop over the registry
set_device_key_value_multimap(heap, maps, device_id, key, value) ==
    IF key \in FIELDS_TO_EXCLUDE_FROM_SYNC \/ maps = <<>> THEN heap
    ELSE set_device_key_value_multimap(
             set_device_key_value(heap, Head(maps), device_id, key, value),
             Tail(maps), device_id, key, value)

\* XTDevice.__setattr__ of a record whose original_device is None: the plain
\* assignment, then the broadcast over the registered maps
XTDevice_setattr(heap, r, attr, value) ==
    LET assigned == [heap EXCEPT ![r] = [heap[r] EXCEPT ![attr] = value]] IN
    IF attr \in FIELDS_TO_EXCLUDE_FROM_SYNC THEN assigned
    ELSE set_device_key_value_multimap(assigned, registered_maps,
                                       assigned[r].id, attr, value)

RECURSIVE Broadcasts_setattr(_, _, _, _)
RECURSIVE Broadcasts_multimap(_, _, _, _, _)

\* the calls of set_device_key_value_multimap that one call of
\* set_device_key_value leads to: those of the setattr on the map's record
Broadcasts_key_value(heap, m, device_id, key, value) ==
    IF key \in FIELDS_TO_EXCLUDE_FROM_SYNC THEN 0
    ELSE LET device == MapGet(m, device_id) IN
         IF /\ device # NoDevice
            /\ hasattr(heap[device], key)
            /\ heap[device][key] # value
         THEN Broadcasts_setattr(heap, device, key, value)
         ELSE 0

\* ... that the loop over the registry leads to, map after map
Broadcasts_multimap(heap, maps, device_id, key, value) ==
    IF key \in FIELDS_TO_EXCLUDE_FROM_SYNC \/ maps = <<>> THEN 0
    ELSE Broadcasts_key_value(heap, Head(maps), device_id, key, value)
         + Broadcasts_multimap(
               set_device_key_value(heap, Head(maps), device_id, key, value),
               Tail(maps), device_id, key, value)

\* ... that XTDevice.__setattr__ makes: its own call and the calls made by
\* the assignments of that call
Broadcasts_setattr(heap, r, attr, value) ==
    LET assigned == [heap EXCEPT ![r] = [heap[r] EXCEPT ![attr] = value]] IN
    IF attr \in FIELDS_TO_EXCLUDE_FROM_SYNC THEN 0
    ELSE 1 + Broadcasts_multimap(assigned, registered_maps,
                                 assigned[r].id, attr, value)

\* a value that Python does not find equal to itself: float("nan")
NaN == "nan"

\* getattr(device, key) != value
py_ne(a, b) == a = NaN \/ b = NaN \/ a # b

\* One write followed call by call: the heap, the records assigned so far in
\* order, and whether RecursionError was raised (it ends every loop on the
\* stack; what was assigned stays assigned).
RECURSIVE Trace_setattr(_, _, _, _, _)
RECURSIVE Trace_multimap(_, _, _, _, _, _)

\* XTDeviceMap.set_device_key_value
Trace_key_value(t, m, device_id, key, value, depth) ==
    IF t.failed \/ key \in FIELDS_TO_EXCLUDE_FROM_SYNC THEN t
    ELSE LET device == MapGet(m, device_id) IN
         IF /\ device # NoDevice
            /\ hasattr(t.heap[device], key)
            /\ py_ne(t.heap[device][key], value)
         THEN Trace_setattr(t, device, key, value, depth + 1)
         ELSE t

\* XTDeviceMap.set_device_key_value_multimap
Trace_multimap(t, maps, device_id, key, value, depth) ==
    IF t.failed \/ key \in FIELDS_TO_EXCLUDE_FROM_SYNC \/ maps = <<>> THEN t
    ELSE Trace_multimap(
             Trace_key_value(t, Head(maps), device_id, key, value, depth),
             Tail(maps), device_id, key, value, depth)

\* XTDevice.__setattr__, depth calls of it already on the stack
Trace_setattr(t, r, attr, value, depth) ==
    IF depth >= MaxDepth THEN [t EXCEPT !.failed = TRUE]
    ELSE LET assigned == [t EXCEPT !.heap[r][attr] = value,
                                   !.assigned = Append(@, r)] IN
         IF attr \in FIELDS_TO_EXCLUDE_FROM_SYNC THEN assigned
         ELSE Trace_multimap(assigned, registered_maps,
                             assigned.heap[r].id, attr, value, depth)

\* device_map in XTDeviceMap.master_device_map: list membership is by
\* equality, and two UserDicts are equal when their contents are
InRegistry(registry, m) ==
    \E i \in 1..Len(registry) : registry[i] = m \/ data[registry[i]] = data[m]

RECURSIVE RemoveEqual(_, _)
\* list.remove(device_map): drops the first element equal to the map
RemoveEqual(registry, m) ==
    IF registry = <<>> THEN <<>>
    ELSE IF Head(registry) = m \/ data[Head(registry)] = data[m]
         THEN Tail(registry)
         ELSE <<Head(registry)>> \o RemoveEqual(Tail(registry), m)

clear_master_device_map_Keep == registered_maps

\* XTDeviceMap.master_device_map = []
clear_master_device_map == <<>>

register_device_map(registry, m) ==
    IF ~InRegistry(registry, m) THEN Append(registry, m) ELSE registry

unregister_device_map(registry, m) ==
    IF InRegistry(registry, m) THEN RemoveEqual(registry, m) ELSE registry

\* no record with a local strategy exists, smart_merge was not called
NoStrategies ==
    /\ strategy_devices = << >>
    /\ strategy_dicts = << >>
    /\ smart = << >>
    /\ resolved = << >>

\* no records, every map empty as XTDeviceMap({}) leaves it
RecInit ==
    /\ devices = << >>
    /\ data = [m \in MapIds |-> [d \in DeviceIds |-> NoDevice]]
    /\ last_op = <<>>
    /\ map_priority = [a \in Range(CycleAccounts) |-> NoPriority]
    /\ premerge = << >>
    /\ NoStrategies

\* ============================================================ XTThread
\* Thread.is_alive(): started and not yet finished
is_alive(j) == thread[j] = "alive"

HasException_Never(j) == FALSE

\* XTThread.exception is set
HasException(j) == thread[j] = "failed"

\* call_thread: the callable returns or raises; a raise is captured in
\* self.exception and the thread ends either way.
call_thread(j, raises) ==
    /\ thread[j] = "alive"
    /\ thread' = [thread EXCEPT ![j] = IF raises THEN "failed" ELSE "ok"]
    /\ UNCHANGED <<thread_queue, thread_active_list, thread_finished_list,
                   max_concurrency, pc, ret, active_copy,
                   at_least_one_thread_removed, result, batch, delivered>>

\* ================================================== XTThreadingManager
NextJob == Cardinality({j \in JobIds : thread[j] # "unborn"}) + 1

add_thread(immediate_start) ==
    /\ pc = "idle"
    /\ NextJob \in JobIds
    /\ thread_queue' = Append(thread_queue, NextJob)
    /\ thread' = [thread EXCEPT ![NextJob] =
                     IF immediate_start THEN "alive" ELSE "new"]
    /\ UNCHANGED <<thread_active_list, thread_finished_list, max_concurrency,
                   pc, ret, active_copy, at_least_one_thread_removed, result,
                   batch, delivered>>

CapReached_OffByOne(active, cap) == cap # NoCap /\ Len(active) > cap

\* the loop exit test of start_all_threads
CapReached(active, cap) == cap # NoCap /\ Len(active) >= cap

ResetFinishedList_Keep(finished) == finished

\* start_and_wait resets the finished list before it starts the threads
ResetFinishedList(finished) == <<>>

start_and_wait(cap) ==
    /\ pc = "idle"
    /\ thread_finished_list' = ResetFinishedList(thread_finished_list)
    /\ max_concurrency' = cap
    /\ pc' = "start_all"
    /\ ret' = "clean"
    /\ result' = "running"
    /\ batch' = Range(thread_queue) \cup Range(thread_active_list)
    /\ UNCHANGED <<thread_queue, thread_active_list, thread, active_copy,
                   at_least_one_thread_removed, delivered>>

\* one iteration of the loop of start_all_threads; Thread.start() raises
\* RuntimeError on a thread that was already started.
start_all_threads ==
    /\ pc = "start_all"
    /\ IF Len(thread_queue) = 0 \/ CapReached(thread_active_list, max_concurrency)
       THEN /\ pc' = ret
            /\ UNCHANGED <<thread_queue, thread_active_list, thread, result>>
       ELSE LET added_thread == Head(thread_queue) IN
            /\ thread_queue' = Tail(thread_queue)
            /\ thread_active_list' = Append(thread_active_list, added_thread)
            /\ IF thread[added_thread] = "new"
               THEN /\ thread' = [thread EXCEPT ![added_thread] = "alive"]
                    /\ UNCHANGED <<pc, result>>
               ELSE /\ pc' = "idle"
                    /\ result' = "RuntimeError"
                    /\ UNCHANGED thread
    /\ UNCHANGED <<thread_finished_list, max_concurrency, ret, active_copy,
                   at_least_one_thread_removed, batch, delivered>>

\* clean_finished_threads, the copy of the active list
clean_copy ==
    /\ pc = "clean"
    /\ active_copy' = thread_active_list
    /\ at_least_one_thread_removed' = FALSE
    /\ pc' = "clean_loop"
    /\ UNCHANGED <<thread_queue, thread_active_list, thread_finished_list,
                   max_concurrency, thread, ret, result, batch, delivered>>

\* clean_finished_threads, one iteration of the loop over the copy
clean_thread ==
    /\ pc = "clean_loop"
    /\ active_copy # <<>>
    /\ LET t == Head(active_copy) IN
       /\ active_copy' = Tail(active_copy)
       /\ IF ~is_alive(t) /\ t \in Range(thread_active_list)
          THEN /\ thread_active_list' = Remove(thread_active_list, t)
               /\ thread_finished_list' = Append(thread_finished_list, t)
               /\ at_least_one_thread_removed' = TRUE
          ELSE UNCHANGED <<thread_active_list, thread_finished_list,
                           at_least_one_thread_removed>>
    /\ UNCHANGED <<thread_queue, max_concurrency, thread, pc, ret, result,
                   batch, delivered>>

RefillNeeded_Never(removed) == FALSE

\* clean_finished_threads restarts the queue when a thread was removed
RefillNeeded(removed) == removed

\* clean_finished_threads, after the loop
clean_done ==
    /\ pc = "clean_loop"
    /\ active_copy = <<>>
    /\ IF RefillNeeded(at_least_one_thread_removed)
       THEN pc' = "start_all" /\ ret' = "check"
       ELSE pc' = "check" /\ UNCHANGED ret
    /\ UNCHANGED <<thread_queue, thread_active_list, thread_finished_list,
                   max_concurrency, thread, active_copy,
                   at_least_one_thread_removed, result, batch, delivered>>

AllThreadsJoined_OneLeft(active) == Len(active) <= 1

\* the loop exit test of wait_for_all_threads
AllThreadsJoined(active) == Len(active) = 0

\* wait_for_all_threads: leave the loop, or join(timeout) the first active
\* thread (the join returns when the thread ends or the timeout expires)
wait_check ==
    /\ pc = "check"
    /\ pc' = IF AllThreadsJoined(thread_active_list) THEN "raise" ELSE "clean"
    /\ UNCHANGED <<thread_queue, thread_active_list, thread_finished_list,
                   max_concurrency, thread, ret, active_copy,
                   at_least_one_thread_removed, result, batch, delivered>>

\* threads of a list whose raise_exception_if_needed raises
Failing(list) == {i \in 1..Len(list) : HasException(list[i])}

\* wait_for_all_threads, after the loop: the first captured exception of the
\* finished list is raised, the others are not looked at
raise_exceptions ==
    /\ pc = "raise"
    /\ pc' = "idle"
    /\ LET f == Failing(thread_finished_list) IN
       IF f = {}
       THEN result' = "returned" /\ UNCHANGED delivered
       ELSE LET first == CHOOSE i \in f : \A k \in f : i <= k IN
            /\ result' = "raised"
            /\ delivered' = delivered \cup {thread_finished_list[first]}
    /\ UNCHANGED <<thread_queue, thread_active_list, thread_finished_list,
                   max_concurrency, thread, ret, active_copy,
                   at_least_one_thread_removed, batch>>

\* a step of the thread that is inside start_and_wait
RunnerStep ==
    \/ start_all_threads
    \/ clean_copy
    \/ clean_thread
    \/ clean_done
    \/ wait_check
    \/ raise_exceptions

RunnerInit ==
    /\ thread_queue = <<>>
    /\ thread_active_list = <<>>
    /\ thread_finished_list = <<>>
    /\ max_concurrency = NoCap
    /\ thread = [j \in JobIds |-> "unborn"]
    /\ pc = "idle"
    /\ ret = "clean"
    /\ active_copy = <<>>
    /\ at_least_one_thread_removed = FALSE
    /\ result = "none"
    /\ batch = {}
    /\ delivered = {}

MMInit ==
    /\ is_ready_for_messages = FALSE
    /\ pending_messages = <<>>
    /\ live_log = <<>>
    /\ status_lists = <<>>
    /\ account_messages = <<>>
    /\ was_buffered = {}
    /\ in_flight = {}
    /\ nmsgs = 0
    /\ source_map = [a \in Accounts |-> {}]
    /\ master_device_map = [d \in DeviceIds |-> 0]
    /\ registered_maps = <<>>
    /\ mm_pc = "idle"
    /\ mm_result = "none"
    /\ cycle = 0

Init == RunnerInit /\ MMInit /\ RecInit

\* ------------------------------------------- the runner used by a client
\* A client that submits jobs (deferred start) and runs them with
\* start_and_wait, with no cap or a cap k >= 1, again and again.
Submit == add_thread(FALSE) /\ UNCHANGED <<mmVars, recVars>>
RunAndWait == \E cap \in Caps : start_and_wait(cap) /\ UNCHANGED <<mmVars, recVars>>
Runner == RunnerStep /\ UNCHANGED <<mmVars, recVars>>
Job ==
    \E j \in JobIds, raises \in BOOLEAN :
        call_thread(j, raises) /\ UNCHANGED <<mmVars, recVars>>

Next == Submit \/ RunAndWait \/ Runner \/ Job

Spec == Init /\ [][Next]_vars

\* The calling thread keeps running and every job terminates.
SpecLive == Spec /\ WF_vars(Runner) /\ WF_vars(Job)

\* A client that also submits jobs with immediate_start=True: the thread is
\* started by add_thread and stays in thread_queue.
SubmitImmediate == add_thread(TRUE) /\ UNCHANGED <<mmVars, recVars>>

NextImmediate == Submit \/ SubmitImmediate \/ RunAndWait \/ Runner \/ Job

SpecImmediate == Init /\ [][NextImmediate]_vars

\* A client that passes any max_concurrency an int allows, 0 included
AnyCaps == Caps \cup {0}
RunAndWaitAnyCap ==
    \E cap \in AnyCaps : start_and_wait(cap) /\ UNCHANGED <<mmVars, recVars>>

NextAnyCap == Submit \/ RunAndWaitAnyCap \/ Runner \/ Job

SpecAnyCap == Init /\ [][NextAnyCap]_vars

\* ======================================================= MessageHandler
None == "None"
PROTOCOL_DEVICE_REPORT == "PROTOCOL_DEVICE_REPORT"
PROTOCOL_OTHER == "PROTOCOL_OTHER"

\* msg.get("protocol", 0) of a message without a protocol
NoProtocol == "0"

\* a payload: protocol, data.devId, data.bizData.devId, data.status
Payload(protocol, devId, bizDevId, status) ==
    [protocol |-> protocol, devId |-> devId, bizDevId |-> bizDevId, status |-> status]

\* payloads delivered to on_message
Payloads ==
    { Payload(PROTOCOL_DEVICE_REPORT, "dev1", None, "status"),
      Payload(PROTOCOL_OTHER, None, None, None) }

\* sources that deliver messages; every one is a registered account
Sources == {1}

_get_device_id_from_message_AnyProtocol(msg) ==
    IF msg.devId # None THEN msg.devId
    ELSE IF msg.bizDevId # None THEN msg.bizDevId
    ELSE None

\* data.devId, and for a PROTOCOL_OTHER message data.bizData.devId
_get_device_id_from_message(msg) ==
    IF msg.devId # None THEN msg.devId
    ELSE IF msg.protocol = PROTOCOL_OTHER /\ msg.bizDevId # None THEN msg.bizDevId
    ELSE None

\* the message reaches accounts[source].on_message
Forwarded(m) ==
    /\ _get_device_id_from_message(m.msg) # None
    /\ m.source \in Accounts

IsBuffering_Always(ready) == TRUE

\* on_message: the readiness test
IsBuffering(ready) == ~ready

Enqueue_InFront(pending, m) == <<m>> \o pending

\* on_message: pending_messages.append((source, msg))
Enqueue(pending, m) == Append(pending, m)

\* on_message once the router is ready: the message goes through the Live
\* path (device id, conversion, status list, forwarding to the adapter)
LivePath(log, m) == Append(log, m)

_get_status_list_from_message(msg) ==
    IF msg.protocol = PROTOCOL_DEVICE_REPORT /\ msg.status # None
    THEN msg.status ELSE None

\* a PROTOCOL_OTHER message gets data["devId"] from data.bizData.devId
_convert_message_for_all_accounts(msg) ==
    IF msg.protocol = PROTOCOL_OTHER /\ msg.bizDevId # None
    THEN [msg EXCEPT !.devId = msg.bizDevId]
    ELSE msg

\* the Live path: a message with a device id and a status list is registered
\* with multi_source_handler
register_status_list_from_source(lists, m) ==
    IF /\ _get_device_id_from_message(m.msg) # None
       /\ _get_status_list_from_message(m.msg) # None
    THEN Append(lists, [n |-> m.n,
                        dev_id |-> _get_device_id_from_message(m.msg),
                        source |-> m.source,
                        status_list |-> _get_status_list_from_message(m.msg)])
    ELSE lists

\* the Live path: the converted message goes to accounts[source].on_message
account_on_message(messages, m) ==
    IF Forwarded(m)
    THEN Append(messages, [n |-> m.n, source |-> m.source,
                           msg |-> _convert_message_for_all_accounts(m.msg)])
    ELSE messages

\* A message handed to on_message by a source; n numbers the deliveries.
on_message(source, msg) ==
    /\ nmsgs < MaxMsgs
    /\ nmsgs' = nmsgs + 1
    /\ LET m == [n |-> nmsgs + 1, source |-> source, msg |-> msg] IN
       IF IsBuffering(is_ready_for_messages)
       THEN /\ pending_messages' = Enqueue(pending_messages, m)
            /\ was_buffered' = was_buffered \cup {m.n}
            /\ UNCHANGED <<live_log, status_lists, account_messages>>
       ELSE /\ live_log' = LivePath(live_log, m)
            /\ status_lists' = register_status_list_from_source(status_lists, m)
            /\ account_messages' = account_on_message(account_messages, m)
            /\ UNCHANGED <<pending_messages, was_buffered>>
    /\ UNCHANGED <<is_ready_for_messages, in_flight, source_map, master_device_map,
                   registered_maps, mm_pc, mm_result, cycle>>

\* ========================================================= MultiManager
\* the records of a map, as (device id, account that produced the record)
Content(m) ==
    IF m = 0 THEN {<<d, master_device_map[d]>> : d \in {x \in DeviceIds : master_device_map[x] # 0}}
    ELSE {<<d, m>> : d \in source_map[m]}

\* update_device_cache up to the call of start_and_wait: readiness is taken
\* back, the registry is emptied, a new XTThreadingManager gets one job per
\* account and start_and_wait() is entered without a cap.
update_device_cache_begin ==
    /\ mm_pc = "idle"
    /\ pc = "idle"
    /\ cycle < MaxCycles
    /\ cycle' = cycle + 1
    /\ is_ready_for_messages' = FALSE
    /\ registered_maps' = <<>>
    /\ thread' = [j \in JobIds |-> IF j \in Accounts THEN "new" ELSE "unborn"]
    /\ thread_queue' = AccountList
    /\ thread_active_list' = <<>>
    /\ thread_finished_list' = <<>>
    /\ max_concurrency' = NoCap
    /\ pc' = "start_all"
    /\ ret' = "clean"
    /\ active_copy' = <<>>
    /\ at_least_one_thread_removed' = FALSE
    /\ result' = "running"
    /\ batch' = Accounts
    /\ delivered' = {}
    /\ mm_pc' = "refreshing"
    /\ UNCHANGED <<pending_messages, live_log, status_lists, account_messages, was_buffered, in_flight, nmsgs, source_map,
                   master_device_map, mm_result>>

\* update_device_cache_thread(manager): the adapter's refresh raises, or it
\* repopulates the adapter's device map and the records are converted.
update_device_cache_thread(a, raises, ids) ==
    /\ mm_pc = "refreshing"
    /\ call_thread(a, raises)
    /\ source_map' = IF raises THEN source_map ELSE [source_map EXCEPT ![a] = ids]
    /\ UNCHANGED <<is_ready_for_messages, pending_messages, live_log, status_lists, account_messages,
                   was_buffered, in_flight, nmsgs, master_device_map, registered_maps,
                   mm_pc, mm_result, cycle>>

\* _update_master_device_map: ids that are not yet in the master map get the
\* record of the first account, in account order, whose map holds the id
_update_master_device_map ==
    [d \in DeviceIds |->
        IF master_device_map[d] # 0 THEN master_device_map[d]
        ELSE IF \E a \in Accounts : d \in source_map[a]
             THEN CHOOSE a \in Accounts :
                      /\ d \in source_map[a]
                      /\ \A b \in Accounts : d \in source_map[b] => a <= b
             ELSE 0]

RECURSIVE RegisterAll(_, _, _)
\* register_device_map for each map of a list, in order: a map is appended
\* unless the registry already holds a map equal to it
RegisterAll(registry, maps, content) ==
    IF maps = <<>> THEN registry
    ELSE RegisterAll(
            IF \E i \in 1..Len(registry) : content[registry[i]] = content[Head(maps)]
            THEN registry ELSE Append(registry, Head(maps)),
            Tail(maps), content)

RECURSIVE Replay(_, _)
\* the loop of _process_pending_messages: on_message for each message of the
\* list, in list order, with readiness already marked
Replay(log, list) ==
    IF list = <<>> THEN log
    ELSE Replay(LivePath(log, Head(list)), Tail(list))

RECURSIVE ReplayStatusLists(_, _)
ReplayStatusLists(lists, list) ==
    IF list = <<>> THEN lists
    ELSE ReplayStatusLists(register_status_list_from_source(lists, Head(list)),
                           Tail(list))

RECURSIVE ReplayAccounts(_, _)
ReplayAccounts(messages, list) ==
    IF list = <<>> THEN messages
    ELSE ReplayAccounts(account_on_message(messages, Head(list)), Tail(list))

\* _process_pending_messages: readiness is marked, the buffered messages go
\* through on_message in list order, then the list is cleared. raise_at = 0:
\* no call raises; raise_at = i: the adapter raises on the i-th message, which
\* ends the method before the list is cleared.
_process_pending_messages(raise_at) ==
    /\ is_ready_for_messages' = TRUE
    /\ IF raise_at = 0
       THEN /\ live_log' = Replay(live_log, pending_messages)
            /\ status_lists' = ReplayStatusLists(status_lists, pending_messages)
            /\ account_messages' = ReplayAccounts(account_messages, pending_messages)
            /\ pending_messages' = <<>>
            /\ mm_result' = "ok"
       ELSE /\ live_log' = Replay(live_log, SubSeq(pending_messages, 1, raise_at))
            /\ status_lists' =
                   ReplayStatusLists(status_lists, SubSeq(pending_messages, 1, raise_at))
            /\ account_messages' =
                   ReplayAccounts(account_messages, SubSeq(pending_messages, 1, raise_at))
            /\ pending_messages' = pending_messages
            /\ mm_result' = "raised"

\* the XTThreadingManager of update_device_cache is a local variable: it is
\* gone when the method ends
DropThreadManager ==
    /\ thread_queue' = <<>>
    /\ thread_active_list' = <<>>
    /\ thread_finished_list' = <<>>
    /\ max_concurrency' = NoCap
    /\ thread' = [j \in JobIds |-> "unborn"]
    /\ pc' = "idle"
    /\ ret' = "clean"
    /\ active_copy' = <<>>
    /\ at_least_one_thread_removed' = FALSE
    /\ result' = "none"
    /\ batch' = {}
    /\ delivered' = {}

\* update_device_cache after start_and_wait: an exception of start_and_wait
\* leaves the method at once; otherwise the master map is filled, the maps
\* are registered and the pending messages are processed.
update_device_cache_end(raise_at) ==
    /\ mm_pc = "refreshing"
    /\ pc = "idle"
    /\ result # "running"
    /\ mm_pc' = "idle"
    /\ IF result # "returned"
       THEN /\ raise_at = 0
            /\ mm_result' = "raised"
            /\ UNCHANGED <<is_ready_for_messages, pending_messages, live_log, status_lists, account_messages,
                           master_device_map, registered_maps>>
       ELSE /\ raise_at \in 0..Len(pending_messages)
            /\ raise_at # 0 => Forwarded(pending_messages[raise_at])
            /\ master_device_map' = _update_master_device_map
            /\ registered_maps' =
                  RegisterAll(<<>>, AccountList \o <<0>>,
                     [m \in Accounts \cup {0} |->
                        IF m # 0 THEN Content(m)
                        ELSE {<<d, _update_master_device_map[d]>> :
                                d \in {x \in DeviceIds : _update_master_device_map[x] # 0}}])
            /\ _process_pending_messages(raise_at)
    /\ UNCHANGED <<was_buffered, in_flight, nmsgs, source_map, cycle>>
    /\ DropThreadManager

\* ---------------------------------------------- the refresh cycle and router
Refresh == update_device_cache_begin /\ UNCHANGED recVars
RefreshJob ==
    \E a \in Accounts, raises \in BOOLEAN, ids \in SUBSET DeviceIds :
        update_device_cache_thread(a, raises, ids) /\ UNCHANGED recVars
RefreshEnd == update_device_cache_end(0) /\ UNCHANGED recVars
RefreshEndRaising ==
    \E i \in 1..MaxMsgs : update_device_cache_end(i) /\ UNCHANGED recVars
\* Messages arrive from the sources' own threads, between refresh cycles or
\* during one. A message that arrives during a cycle finds readiness taken
\* back whichever step the runner is at, and shares no state with the runner:
\* the model lets it arrive before the first job is started.
Deliver ==
    /\ mm_pc = "idle" \/ (pc = "start_all" /\ batch = Range(thread_queue))
    /\ \E source \in Sources, msg \in Payloads :
          on_message(source, msg) /\ UNCHANGED <<runnerVars, recVars>>

\* adapters whose on_message returns normally
NextMM == Refresh \/ Runner \/ RefreshJob \/ RefreshEnd \/ Deliver

SpecMM == Init /\ [][NextMM]_vars

\* adapters whose on_message may raise
NextRaise == NextMM \/ RefreshEndRaising

SpecRaise == Init /\ [][NextRaise]_vars

\* ------------------------------------------------ the router and its payloads
\* the payload shapes of the sources: the id in data.devId, in
\* data.bizData.devId, in both or in none, under each protocol
LivePayloads ==
    Payloads \cup
    { Payload(PROTOCOL_DEVICE_REPORT, None, "dev2", "status"),
      Payload(PROTOCOL_OTHER, None, "dev2", None),
      Payload(PROTOCOL_OTHER, "dev1", "dev2", None),
      Payload(NoProtocol, None, "dev2", None) }
\* the callers of on_message: a registered account and an unknown source
LiveSources == {1, 3}

\* a source delivers a message, whatever the router's state
DeliverAny ==
    \E source \in LiveSources, msg \in LivePayloads :
        on_message(source, msg) /\ UNCHANGED <<runnerVars, recVars>>

\* update_device_cache, first statement: readiness is taken back
BeginCycle ==
    /\ mm_pc = "idle"
    /\ is_ready_for_messages' = FALSE
    /\ mm_pc' = "jobs"
    /\ UNCHANGED <<pending_messages, live_log, status_lists, account_messages,
                   was_buffered, in_flight, nmsgs, source_map, master_device_map,
                   registered_maps, mm_result, cycle, runnerVars, recVars>>

\* update_device_cache, last statement: the flush
EndCycle ==
    /\ mm_pc = "jobs"
    /\ _process_pending_messages(0)
    /\ mm_pc' = "idle"
    /\ UNCHANGED <<was_buffered, in_flight, nmsgs, source_map, master_device_map,
                   registered_maps, cycle, runnerVars, recVars>>

NextMsg == DeliverAny \/ BeginCycle \/ EndCycle

SpecMsg == Init /\ [][NextMsg]_vars

\* ------------------------------------------- the flush, statement by statement
\* _process_pending_messages as the replayed on_message calls see it: the
\* adapters are called in the middle of the loop and read the manager's state.
\* Messages are delivered between the statements of update_device_cache, not
\* inside the flush (delivery and the flush run on one thread).
DeliverBetween ==
    /\ mm_pc \in {"idle", "jobs"}
    /\ \E source \in Sources, msg \in Payloads :
          on_message(source, msg) /\ UNCHANGED <<runnerVars, recVars>>

\* the loop's position: the messages of the list that went through the Live
\* path already
Replayed ==
    {i \in 1..Len(pending_messages) :
        \E k \in 1..Len(live_log) : live_log[k].n = pending_messages[i].n}

FlushFrame ==
    UNCHANGED <<was_buffered, in_flight, nmsgs, source_map, master_device_map,
                registered_maps, mm_result, cycle, runnerVars, recVars>>

\* self.is_ready_for_messages = True
FlushMark ==
    /\ mm_pc = "jobs"
    /\ is_ready_for_messages' = TRUE
    /\ mm_pc' = "replay"
    /\ UNCHANGED <<pending_messages, live_log, status_lists, account_messages>>
    /\ FlushFrame

\* one turn of the loop: self.on_message(messages[0], messages[1]), which
\* finds readiness marked and takes the Live path
FlushReplay ==
    /\ mm_pc = "replay"
    /\ Cardinality(Replayed) < Len(pending_messages)
    /\ ~IsBuffering(is_ready_for_messages)
    /\ LET m == pending_messages[Cardinality(Replayed) + 1] IN
          /\ live_log' = LivePath(live_log, m)
          /\ status_lists' = register_status_list_from_source(status_lists, m)
          /\ account_messages' = account_on_message(account_messages, m)
    /\ UNCHANGED <<is_ready_for_messages, pending_messages, mm_pc>>
    /\ FlushFrame

FlushClear_Early ==
    /\ mm_pc = "replay"
    /\ pending_messages' = <<>>
    /\ mm_pc' = "idle"
    /\ UNCHANGED <<is_ready_for_messages, live_log, status_lists, account_messages>>
    /\ FlushFrame

\* self.pending_messages.clear(), after the loop
FlushClear ==
    /\ mm_pc = "replay"
    /\ Cardinality(Replayed) = Len(pending_messages)
    /\ pending_messages' = <<>>
    /\ mm_pc' = "idle"
    /\ UNCHANGED <<is_ready_for_messages, live_log, status_lists, account_messages>>
    /\ FlushFrame

NextFlush == DeliverBetween \/ BeginCycle \/ FlushMark \/ FlushReplay \/ FlushClear

SpecFlush == Init /\ [][NextFlush]_vars

\* ------------------------------- on_message on a thread of its own, unlocked
\* The sources call on_message from their own threads while the caller of
\* update_device_cache runs the flush; nothing serialises the two, so a
\* thread can be suspended between the readiness test and the append.
RaceFrame ==
    UNCHANGED <<is_ready_for_messages, source_map, master_device_map,
                registered_maps, mm_pc, mm_result, cycle, runnerVars, recVars>>

\* on_message, the readiness test: a message that finds Buffering is about
\* to be appended; one that finds Live goes through the Live path
on_message_test ==
    \E source \in Sources, msg \in Payloads :
        /\ nmsgs < MaxMsgs
        /\ nmsgs' = nmsgs + 1
        /\ LET m == [n |-> nmsgs + 1, source |-> source, msg |-> msg] IN
           IF IsBuffering(is_ready_for_messages)
           THEN /\ in_flight' = in_flight \cup {m}
                /\ was_buffered' = was_buffered \cup {m.n}
                /\ UNCHANGED <<live_log, status_lists, account_messages>>
           ELSE /\ live_log' = LivePath(live_log, m)
                /\ status_lists' = register_status_list_from_source(status_lists, m)
                /\ account_messages' = account_on_message(account_messages, m)
                /\ UNCHANGED <<in_flight, was_buffered>>
        /\ UNCHANGED pending_messages
        /\ RaceFrame

\* on_message, pending_messages.append((source, msg)), whenever the thread
\* runs again
on_message_append ==
    \E m \in in_flight :
        /\ pending_messages' = Enqueue(pending_messages, m)
        /\ in_flight' = in_flight \ {m}
        /\ UNCHANGED <<live_log, status_lists, account_messages, was_buffered, nmsgs>>
        /\ RaceFrame

\* the for loop of _process_pending_messages ends: the list iterator found
\* no further element
FlushLoopEnds ==
    /\ mm_pc = "replay"
    /\ Cardinality(Replayed) = Len(pending_messages)
    /\ mm_pc' = "clear"
    /\ UNCHANGED <<is_ready_for_messages, pending_messages, live_log,
                   status_lists, account_messages>>
    /\ FlushFrame

\* self.pending_messages.clear(): whatever the list holds by now
FlushClearAfterLoop ==
    /\ mm_pc = "clear"
    /\ pending_messages' = <<>>
    /\ mm_pc' = "idle"
    /\ UNCHANGED <<is_ready_for_messages, live_log, status_lists, account_messages>>
    /\ FlushFrame

NextRace ==
    on_message_test \/ on_message_append \/ BeginCycle \/ FlushMark
        \/ FlushReplay \/ FlushLoopEnds \/ FlushClearAfterLoop

SpecRace == Init /\ [][NextRace]_vars

\* ------------------------------- a client of records, maps and the registry
\* XTDevice.__init__ followed by the assignment of the given attributes
XTDevice(id, online, extra) ==
    [id |-> id, source |-> "", device_source_priority |-> NoPriority,
     device_map |-> NoMap, original_device |-> None, online |-> online,
     force_compatibility |-> FALSE, function |-> "{}",
     local_strategy |-> "{}", extra |-> extra]

\* records and maps the client holds
ClientRecs == {1, 2}
ClientMaps == {0, 1, 2}
\* values the client writes to an attribute
WrittenValues == [online |-> BOOLEAN, extra |-> {"x", "y"}]

NoOp == [op |-> "other", map |-> NoMap, rec |-> 0, attr |-> "", value |-> "",
         before |-> <<>>, changed |-> {}, broadcasts |-> 0,
         assigned |-> <<>>, failed |-> FALSE]

RecFrame ==
    UNCHANGED <<runnerVars, strategyVars, smart, resolved, is_ready_for_messages, pending_messages, live_log, status_lists, account_messages,
                was_buffered, in_flight, nmsgs, source_map, master_device_map, mm_pc,
                mm_result, cycle>>

\* device_map[device.id] = device: UserDict.__setitem__
SetItem ==
    \E m \in ClientMaps, r \in DOMAIN devices :
        /\ data' = [data EXCEPT ![m][devices[r].id] = r]
        /\ last_op' = NoOp
        /\ UNCHANGED <<devices, registered_maps, map_priority, premerge>>
        /\ RecFrame

Register ==
    \E m \in ClientMaps :
        /\ registered_maps' = register_device_map(registered_maps, m)
        /\ last_op' = [NoOp EXCEPT !.op = "register", !.map = m,
                                   !.before = registered_maps]
        /\ UNCHANGED <<devices, data, map_priority, premerge>>
        /\ RecFrame

Unregister ==
    \E m \in ClientMaps :
        /\ registered_maps' = unregister_device_map(registered_maps, m)
        /\ last_op' = [NoOp EXCEPT !.op = "unregister", !.map = m,
                                   !.before = registered_maps]
        /\ UNCHANGED <<devices, data, map_priority, premerge>>
        /\ RecFrame

ClearRegistry ==
    /\ registered_maps' = clear_master_device_map
    /\ last_op' = [NoOp EXCEPT !.op = "clear", !.before = registered_maps]
    /\ UNCHANGED <<devices, data, map_priority, premerge>>
    /\ RecFrame

\* setattr(device, attr, value) by the client
Write ==
    \E r \in DOMAIN devices, attr \in DOMAIN WrittenValues :
      \E value \in WrittenValues[attr] :
        /\ devices' = XTDevice_setattr(devices, r, attr, value)
        /\ last_op' = [NoOp EXCEPT !.op = "write", !.rec = r, !.attr = attr,
                          !.value = value,
                          !.changed = {t \in DOMAIN devices :
                                          t # r /\ devices'[t] # devices[t]},
                          !.broadcasts = Broadcasts_setattr(devices, r, attr, value)]
        /\ UNCHANGED <<data, registered_maps, map_priority, premerge>>
        /\ RecFrame

\* the client's records exist, with any values of their attributes
InitRec ==
    /\ RunnerInit
    /\ MMInit
    /\ devices \in [ClientRecs ->
                      {XTDevice(id, online, extra) :
                          id \in DeviceIds, online \in BOOLEAN,
                          extra \in {Absent, "x"}}]
    /\ data = [m \in MapIds |-> [d \in DeviceIds |-> NoDevice]]
    /\ last_op = NoOp
    /\ map_priority = [a \in Range(CycleAccounts) |-> NoPriority]
    /\ premerge = << >>
    /\ NoStrategies

NextRec == SetItem \/ Register \/ Unregister \/ ClearRegistry \/ Write

SpecRec == InitRec /\ [][NextRec]_vars

\* ------------------------------------------- a client that writes any value
\* setattr(device, attr, value) by a client whose values of an attribute
\* include one that is not equal to itself
AnyValues == [extra |-> {"x", "y", NaN}]

WriteAny ==
    \E r \in DOMAIN devices, attr \in DOMAIN AnyValues :
      \E value \in AnyValues[attr] :
        LET t == Trace_setattr([heap |-> devices, assigned |-> <<>>, failed |-> FALSE],
                               r, attr, value, 0) IN
        /\ devices' = t.heap
        /\ last_op' = [NoOp EXCEPT !.op = "write", !.rec = r, !.attr = attr,
                          !.value = value,
                          !.changed = {o \in DOMAIN devices :
                                          o # r /\ t.heap[o] # devices[o]},
                          !.assigned = t.assigned, !.failed = t.failed]
        /\ UNCHANGED <<data, registered_maps, map_priority, premerge>>
        /\ RecFrame

NextAnyValue == SetItem \/ Register \/ WriteAny

\* the client's records, all offline: the client writes no other attribute
InitAnyValue == InitRec /\ \A r \in ClientRecs : ~devices[r].online

SpecAnyValue == InitAnyValue /\ [][NextAnyValue]_vars

\* ------------------------------------ the refresh cycle at record level
\* The part of update_device_cache that follows start_and_wait, on records:
\* the runner is left out (every job runs once and returns), the adapters
\* deliver no message and CloudFixes.apply_fixes, which is outside this
\* repository part, is taken to leave the modelled attributes alone.
FunctionalFields == {"function", "local_strategy"}
MergedFields == {"online"} \cup FunctionalFields

\* the object that the conversion creates for account a in the current cycle
NewObj(a) == (cycle - 1) * Len(CycleAccounts) + a

\* what an account's refresh finds for dev1: nothing, or a raw device; its
\* function and local strategy are values that no other report carries
RawDevices(a) ==
    {[XTDevice("dev1", online, Absent) EXCEPT
          !.force_compatibility = force,
          !.function = NewObj(a),
          !.local_strategy = NewObj(a)] :
        online \in BOOLEAN, force \in BOOLEAN}

\* XTDevice.from_compatible_device of a raw device: a new XTDevice with the
\* attributes of the raw one, its source and its priority
from_compatible_device(device, source, device_source_priority) ==
    [device EXCEPT !.source = source,
                   !.device_source_priority = device_source_priority]

CycleFrame ==
    UNCHANGED <<strategyVars, smart, resolved, thread_queue, thread_active_list, thread_finished_list,
                max_concurrency, pc, ret, active_copy,
                at_least_one_thread_removed, result, batch, delivered,
                pending_messages, live_log, status_lists, account_messages, was_buffered, in_flight, nmsgs, source_map,
                master_device_map, last_op, map_priority>>

\* update_device_cache up to start_and_wait
CycleBegin ==
    /\ mm_pc = "idle"
    /\ cycle < MaxCycles
    /\ cycle' = cycle + 1
    /\ is_ready_for_messages' = FALSE
    /\ registered_maps' = clear_master_device_map
    /\ thread' = [j \in JobIds |->
                    IF j \in Range(CycleAccounts) THEN "alive" ELSE "unborn"]
    /\ mm_pc' = "jobs"
    /\ UNCHANGED <<devices, data, premerge, mm_result>>
    /\ CycleFrame

\* update_device_cache_thread(manager): the adapter empties its device map
\* and puts in what it finds; the loop then converts every device of the map
\* and stores the XTDevice by item assignment
AdapterRefresh ==
    \E a \in Range(CycleAccounts) :
        /\ mm_pc = "jobs"
        /\ thread[a] = "alive"
        /\ thread' = [thread EXCEPT ![a] = "ok"]
        /\ \/ /\ data' = [data EXCEPT ![a] = [d \in DeviceIds |-> NoDevice]]
              /\ UNCHANGED devices
           \/ \E raw \in RawDevices(a) :
                /\ devices' = (NewObj(a) :>
                                 from_compatible_device(raw, "s", map_priority[a]))
                              @@ devices
                /\ data' = [data EXCEPT ![a][raw.id] = NewObj(a)]
        /\ UNCHANGED <<is_ready_for_messages, registered_maps, mm_pc,
                       mm_result, cycle, premerge>>
        /\ CycleFrame

RECURSIVE update_master_device_map_records(_, _)
\* _update_master_device_map on records: an id that the master map does not
\* hold gets the record object of the first account map that holds it
update_master_device_map_records(master, accounts) ==
    IF accounts = <<>> THEN master
    ELSE update_master_device_map_records(
             [d \in DeviceIds |->
                 IF master[d] = NoDevice THEN data[Head(accounts)][d]
                 ELSE master[d]],
             Tail(accounts))

\* start_and_wait has returned: _update_master_device_map
MasterStep ==
    /\ mm_pc = "jobs"
    /\ \A a \in Range(CycleAccounts) : thread[a] = "ok"
    /\ data' = [data EXCEPT ![0] = update_master_device_map_records(data[0], CycleAccounts)]
    /\ premerge' = devices
    /\ mm_pc' = "merge"
    /\ UNCHANGED <<devices, is_ready_for_messages, registered_maps, thread,
                   mm_result, cycle>>
    /\ CycleFrame

\* XTMergingManager.merge_devices(device1, device2): every merged attribute is
\* reconciled to the value of the record with the numerically higher priority
\* (no priority loses to any), in both records; a record with
\* force_compatibility keeps its own functional attributes
XTMergingManager_merge_devices(heap, device1, device2) ==
    LET winner ==
            IF heap[device2].device_source_priority > heap[device1].device_source_priority
            THEN device2 ELSE device1
        Reconciled(r, f) ==
            IF f \in FunctionalFields /\ heap[r].force_compatibility
            THEN heap[r][f] ELSE heap[winner][f]
        Both(h, f) ==
            XTDevice_setattr(XTDevice_setattr(h, device1, f, Reconciled(device1, f)),
                             device2, f, Reconciled(device2, f))
    IN Both(Both(Both(heap, "online"), "function"), "local_strategy")

RECURSIVE _get_devices_from_device_id(_, _)
\* the records that the account maps hold under the id, in account order
_get_devices_from_device_id(device_id, accounts) ==
    IF accounts = <<>> THEN <<>>
    ELSE (IF data[Head(accounts)][device_id] # NoDevice
          THEN <<data[Head(accounts)][device_id]>> ELSE <<>>)
         \o _get_devices_from_device_id(device_id, Tail(accounts))

RECURSIVE MergeWithPrevious(_, _, _)
\* merge_devices, inner loop: current_device is merged with every device of
\* to_be_merged
MergeWithPrevious(heap, to_be_merged, current_device) ==
    IF to_be_merged = <<>> THEN heap
    ELSE MergeWithPrevious(
             XTMergingManager_merge_devices(heap, Head(to_be_merged), current_device),
             Tail(to_be_merged), current_device)

RECURSIVE MergeDeviceList(_, _, _)
\* merge_devices, the loop over the devices of one id
MergeDeviceList(heap, to_be_merged, device_list) ==
    IF device_list = <<>> THEN heap
    ELSE MergeDeviceList(
             MergeWithPrevious(heap, to_be_merged, Head(device_list)),
             Append(to_be_merged, Head(device_list)), Tail(device_list))

RECURSIVE PairsWithPrevious(_, _)
\* the calls of XTMergingManager.merge_devices of the inner loop, in order
PairsWithPrevious(to_be_merged, current_device) ==
    IF to_be_merged = <<>> THEN <<>>
    ELSE <<<<Head(to_be_merged), current_device>>>>
             \o PairsWithPrevious(Tail(to_be_merged), current_device)

RECURSIVE MergedPairs(_, _)
\* the calls of XTMergingManager.merge_devices for the devices of one id
MergedPairs(to_be_merged, device_list) ==
    IF device_list = <<>> THEN <<>>
    ELSE PairsWithPrevious(to_be_merged, Head(device_list))
             \o MergedPairs(Append(to_be_merged, Head(device_list)),
                            Tail(device_list))

RECURSIVE merge_devices(_, _)
\* DeviceMerger.merge_devices: the loop over the devices of the master map
merge_devices(heap, ids) ==
    IF ids = {} THEN heap
    ELSE LET d == CHOOSE x \in ids : TRUE IN
         merge_devices(
             MergeDeviceList(heap, <<>>,
                 _get_devices_from_device_id(heap[data[0][d]].id, CycleAccounts)),
             ids \ {d})

\* self.device_merger.merge_devices()
MergeStep ==
    /\ mm_pc = "merge"
    /\ devices' = merge_devices(devices, {d \in DeviceIds : data[0][d] # NoDevice})
    /\ mm_pc' = "register"
    /\ UNCHANGED <<data, premerge, is_ready_for_messages, registered_maps,
                   thread, mm_result, cycle>>
    /\ CycleFrame

RECURSIVE RegisterMaps(_, _)
\* register_device_map for every map of a list, in order
RegisterMaps(registry, maps) ==
    IF maps = <<>> THEN registry
    ELSE RegisterMaps(register_device_map(registry, Head(maps)), Tail(maps))

\* _enable_multi_map_device_alignment, the registrations: the account maps,
\* then the master map
RegisterStep ==
    /\ mm_pc = "register"
    /\ registered_maps' = RegisterMaps(registered_maps, CycleAccounts \o <<0>>)
    /\ mm_pc' = "align"
    /\ UNCHANGED <<devices, data, premerge, is_ready_for_messages, thread,
                   mm_result, cycle>>
    /\ CycleFrame

\* vars(device): the attributes of the object; local_strategy is a property,
\* the object holds _local_strategy instead
VarsOf(device) ==
    {key \in (DOMAIN device \ {"local_strategy"}) \cup {"_local_strategy"} :
        hasattr(device, key)}

RECURSIVE AlignKeys(_, _, _)
\* setattr(device, key, value) for the keys of vars(device); the write of
\* _local_strategy stores the object that is already there
AlignKeys(heap, device, keys) ==
    IF keys = {} THEN heap
    ELSE LET key == CHOOSE k \in keys : TRUE IN
         AlignKeys(IF key = "_local_strategy" THEN heap
                   ELSE XTDevice_setattr(heap, device, key, heap[device][key]),
                   device, keys \ {key})

RECURSIVE _align_multi_map_devices(_, _)
_align_multi_map_devices(heap, ids) ==
    IF ids = {} THEN heap
    ELSE LET d == CHOOSE x \in ids : TRUE IN
         _align_multi_map_devices(
             AlignKeys(heap, data[0][d], VarsOf(heap[data[0][d]])), ids \ {d})

\* _align_multi_map_devices, then _process_pending_messages with an empty
\* list, and update_device_cache returns
AlignStep ==
    /\ mm_pc = "align"
    /\ devices' = _align_multi_map_devices(
                      devices, {d \in DeviceIds : data[0][d] # NoDevice})
    /\ is_ready_for_messages' = TRUE
    /\ mm_result' = "ok"
    /\ mm_pc' = "idle"
    /\ thread' = [j \in JobIds |-> "unborn"]
    /\ UNCHANGED <<data, premerge, registered_maps, cycle>>
    /\ CycleFrame

\* the accounts' device maps carry priorities 1, 5, 3, or the first has none
InitCycle ==
    /\ RunnerInit
    /\ MMInit
    /\ devices = << >>
    /\ data = [m \in MapIds |-> [d \in DeviceIds |-> NoDevice]]
    /\ last_op = NoOp
    /\ map_priority \in {[a \in Range(CycleAccounts) |-> <<1, 5, 3>>[a]],
                         [a \in Range(CycleAccounts) |-> <<NoPriority, 5, 3>>[a]]}
    /\ premerge = << >>
    /\ NoStrategies

NextCycle ==
    CycleBegin \/ AdapterRefresh \/ MasterStep \/ MergeStep \/ RegisterStep
        \/ AlignStep

SpecCycle == InitCycle /\ [][NextCycle]_vars

\* ====================================================== local strategies
\* status codes and data point ids of the entries
Codes == {"a", "b"}
DpIds == {1, 2}
\* two records, and the LocalStrategyDict objects they can refer to; the
\* client changes the mapping of the first, directly or through the second
\* once that one shares it
StrategyRecs == {1, 2}
Owner == 1
DictIds == {1, 2, 3}
\* the lookups' "not found" for an id; the dp_id of a status range without one
NoDpId == 0
\* the strategy version up to which mutations are followed
MaxVersion == 4

\* an entry: item.get("status_code"), item.get("status_code_alias", [])
Item(code, alias) == [status_code |-> code, status_code_alias |-> alias]
\* plain entries a client stores
PlainItems == {Item("a", <<>>), Item("a", <<"b">>), Item("b", <<>>)}
\* plain mappings a client assigns, as (dp_id, item) in insertion order
PlainTables ==
    { <<>>,
      <<[dp_id |-> 1, item |-> Item("a", <<"b">>)]>>,
      <<[dp_id |-> 1, item |-> Item("a", <<>>)],
        [dp_id |-> 2, item |-> Item("b", <<>>)]>> }
\* status ranges a record is given: code -> dp_id
StatusRanges == {("a" :> 2)}

\* dict: keys, lookup, item assignment (position kept), removal, update
Keys(items) == {items[i].dp_id : i \in 1..Len(items)}
IndexOf(items, k) == CHOOSE i \in 1..Len(items) : items[i].dp_id = k
GetItem(items, k) == items[IndexOf(items, k)].item
dict_setitem(items, k, v) ==
    IF k \in Keys(items) THEN [items EXCEPT ![IndexOf(items, k)].item = v]
    ELSE Append(items, [dp_id |-> k, item |-> v])
dict_delitem(items, k) == SelectSeq(items, LAMBDA e : e.dp_id # k)
RECURSIVE dict_update(_, _)
dict_update(items, table) ==
    IF Len(table) = 0 THEN items
    ELSE dict_update(dict_setitem(items, Head(table).dp_id, Head(table).item),
                     Tail(table))
dict_get(f, k, default) == IF k \in DOMAIN f THEN f[k] ELSE default
Put(f, k, v) == [x \in DOMAIN f \cup {k} |-> IF x = k THEN v ELSE f[x]]

\* XTDevice._invalidate_local_strategy_cache
_invalidate_local_strategy_cache(devs, r) ==
    [devs EXCEPT ![r]._local_strategy_version = @ + 1]

RefreshAliases_Skip(code_to_dpid, aliases, dp_id) == code_to_dpid

\* _refresh_local_strategy_cache: the aliases of one entry
RECURSIVE RefreshAliases(_, _, _)
RefreshAliases(code_to_dpid, aliases, dp_id) ==
    IF Len(aliases) = 0 THEN code_to_dpid
    ELSE RefreshAliases(Put(code_to_dpid, Head(aliases), dp_id), Tail(aliases), dp_id)

\* _refresh_local_strategy_cache: the loop over local_strategy.items()
RECURSIVE RefreshItems(_, _)
RefreshItems(items, acc) ==
    IF Len(items) = 0 THEN acc
    ELSE LET dp_id == Head(items).dp_id
             item == Head(items).item
             code == item.status_code
         IN RefreshItems(Tail(items),
                IF code = None THEN acc
                ELSE [dpid_to_code |-> Put(acc.dpid_to_code, dp_id, code),
                      code_to_dpid |->
                          RefreshAliases(Put(acc.code_to_dpid, code, dp_id),
                                         item.status_code_alias, dp_id)])

\* the two lookups as the loop builds them from a mapping
Built(items) == RefreshItems(items, [dpid_to_code |-> << >>, code_to_dpid |-> << >>])

\* XTDevice._refresh_local_strategy_cache
_refresh_local_strategy_cache(devs, dicts, r) ==
    LET built == Built(dicts[devs[r]._local_strategy].items) IN
    [devs EXCEPT ![r].code_to_dpid = built.code_to_dpid,
                 ![r].dpid_to_code = built.dpid_to_code,
                 ![r]._local_strategy_cache_version = devs[r]._local_strategy_version]

\* objects no record refers to any more are gone
Referenced(devs) == {devs[r]._local_strategy : r \in DOMAIN devs}
Collect(devs, dicts) == [d \in DOMAIN dicts \cap Referenced(devs) |-> dicts[d]]
\* a new LocalStrategyDict object for record r
NewDict(devs, r) ==
    LET used == {devs[o]._local_strategy : o \in DOMAIN devs \ {r}}
    IN  CHOOSE d \in DictIds \ used : \A e \in DictIds \ used : d <= e

\* local_strategy setter with a plain mapping: LocalStrategyDict(self, value)
\* fills itself by update(), which invalidates; then the setter invalidates
\* and refreshes
local_strategy_set(devs, dicts, r, table) ==
    LET d == NewDict(devs, r)
        dicts1 == [x \in DOMAIN dicts \cup {d} |->
                     IF x = d THEN [device |-> r, items |-> dict_update(<<>>, table)]
                     ELSE dicts[x]]
        devs1 == _invalidate_local_strategy_cache(devs, r)
        devs2 == [devs1 EXCEPT ![r]._local_strategy = d]
        devs3 == _invalidate_local_strategy_cache(devs2, r)
    IN  [devs |-> _refresh_local_strategy_cache(devs3, dicts1, r),
         dicts |-> Collect(devs3, dicts1)]

\* local_strategy setter with a LocalStrategyDict: the object is kept as it is
local_strategy_set_dict(devs, dicts, r, d) ==
    LET devs1 == [devs EXCEPT ![r]._local_strategy = d]
        devs2 == _invalidate_local_strategy_cache(devs1, r)
    IN  [devs |-> _refresh_local_strategy_cache(devs2, dicts, r),
         dicts |-> Collect(devs2, dicts)]

\* XTDevice.__init__: the attributes, then self.local_strategy = {}
XTDevice_init(devs, dicts, r) ==
    LET fresh == [_local_strategy |-> NoDpId,
                  _local_strategy_version |-> 0,
                  _local_strategy_cache_version |-> -1,
                  code_to_dpid |-> << >>,
                  dpid_to_code |-> << >>,
                  status_range |-> << >>]
    IN  local_strategy_set([x \in DOMAIN devs \cup {r} |->
                               IF x = r THEN fresh ELSE devs[x]],
                           dicts, r, <<>>)

\* the caches after the lookups' version test
Synced(devs, dicts, r) ==
    IF devs[r]._local_strategy_cache_version # devs[r]._local_strategy_version
    THEN _refresh_local_strategy_cache(devs, dicts, r)
    ELSE devs

\* MultiManager._read_code_from_dpId: what it returns in the current state
_read_code_from_dpId(dpId, r) ==
    dict_get(Synced(strategy_devices, strategy_dicts, r)[r].dpid_to_code, dpId, None)

\* _read_dpId_from_code: the status range answers before the lookups
StatusRangeAnswers(device, code) ==
    /\ code \in DOMAIN device.status_range
    /\ device.status_range[code] # NoDpId

\* MultiManager._read_dpId_from_code: what it returns in the current state
_read_dpId_from_code(code, r) ==
    IF StatusRangeAnswers(strategy_devices[r], code)
    THEN strategy_devices[r].status_range[code]
    ELSE dict_get(Synced(strategy_devices, strategy_dicts, r)[r].code_to_dpid,
                  code, NoDpId)

\* what no operation on local strategies touches
OutsideStrategies ==
    UNCHANGED <<runnerVars, mmVars, devices, data, last_op, map_priority,
                premerge, smart>>

\* a raw status item: state.get("code"), state.get("dpId"), state.get("value"),
\* and its other keys in order, each a number (or NoDpId: not a number) with
\* its value
RawItem(code, dpId, value, bag) ==
    [code |-> code, dpId |-> dpId, value |-> value, bag |-> bag]

\* return None, None, None, False
Failure == [code |-> None, dp_id |-> NoDpId, value |-> None, ok |-> FALSE]

\* no status item was resolved since the strategy changed last
NoCall ==
    [op |-> "none", device_id |-> "", state |-> RawItem(None, NoDpId, None, <<>>),
     fail_if_dpid_not_found |-> TRUE, fail_if_code_not_found |-> TRUE,
     result |-> Failure, status_in |-> <<>>, status_out |-> <<>>]

\* a change of a strategy or a status range: what was resolved before it is
\* not kept
StrategyFrame ==
    /\ OutsideStrategies
    /\ resolved' = IF DOMAIN resolved = {} THEN resolved ELSE NoCall

\* a mutating method of the LocalStrategyDict of record r: the items change
\* and the dict's device is invalidated
MutateDict(r, items) ==
    LET d == strategy_devices[r]._local_strategy
        device == strategy_dicts[d].device
    IN  /\ device = Owner
        /\ strategy_devices[device]._local_strategy_version < MaxVersion
        /\ strategy_dicts' = [strategy_dicts EXCEPT ![d].items = items]
        /\ strategy_devices' =
               _invalidate_local_strategy_cache(strategy_devices, device)
        /\ StrategyFrame

ItemsOf(r) == strategy_dicts[strategy_devices[r]._local_strategy].items

\* device.local_strategy[dp_id] = item
LocalStrategyDict_setitem ==
    \E r \in StrategyRecs, k \in DpIds, v \in PlainItems :
        MutateDict(r, dict_setitem(ItemsOf(r), k, v))

\* del device.local_strategy[dp_id]
LocalStrategyDict_delitem ==
    \E r \in StrategyRecs : \E k \in Keys(ItemsOf(r)) :
        MutateDict(r, dict_delitem(ItemsOf(r), k))

\* device.local_strategy.clear()
LocalStrategyDict_clear ==
    \E r \in StrategyRecs : MutateDict(r, <<>>)

\* device.local_strategy.update(mapping)
LocalStrategyDict_update ==
    \E r \in StrategyRecs, table \in PlainTables :
        MutateDict(r, dict_update(ItemsOf(r), table))

\* device.local_strategy.pop(dp_id)
LocalStrategyDict_pop ==
    \E r \in StrategyRecs : \E k \in Keys(ItemsOf(r)) :
        MutateDict(r, dict_delitem(ItemsOf(r), k))

\* device.local_strategy.popitem(): the entry inserted last
LocalStrategyDict_popitem ==
    \E r \in StrategyRecs :
        /\ Len(ItemsOf(r)) > 0
        /\ MutateDict(r, SubSeq(ItemsOf(r), 1, Len(ItemsOf(r)) - 1))

\* device.local_strategy[dp_id]["status_code"] = code, and the same for
\* "status_code_alias": the entry's parent's device is invalidated
LocalStrategyItemDict_setitem ==
    \E r \in StrategyRecs : \E k \in Keys(ItemsOf(r)) :
        \/ \E code \in Codes :
              MutateDict(r, dict_setitem(ItemsOf(r), k,
                     [GetItem(ItemsOf(r), k) EXCEPT !.status_code = code]))
        \/ \E alias \in {<<>>, <<"b">>} :
              MutateDict(r, dict_setitem(ItemsOf(r), k,
                     [GetItem(ItemsOf(r), k) EXCEPT !.status_code_alias = alias]))

\* del device.local_strategy[dp_id]["status_code"]
LocalStrategyItemDict_delitem ==
    \E r \in StrategyRecs : \E k \in Keys(ItemsOf(r)) :
        /\ GetItem(ItemsOf(r), k).status_code # None
        /\ MutateDict(r, dict_setitem(ItemsOf(r), k,
                 [GetItem(ItemsOf(r), k) EXCEPT !.status_code = None]))

\* the alias list of an entry changed where it is: list.append, list.remove
AliasListInPlace ==
    \E r \in StrategyRecs : \E k \in Keys(ItemsOf(r)) : \E code \in {"b"} :
        LET d == strategy_devices[r]._local_strategy
            item == GetItem(ItemsOf(r), k)
            alias == item.status_code_alias
            device == strategy_dicts[d].device
            changed == IF code \in Range(alias)
                       THEN SelectSeq(alias, LAMBDA c : c # code)
                       ELSE Append(alias, code)
        IN  /\ device = Owner
            /\ strategy_dicts' =
                   [strategy_dicts EXCEPT ![d].items =
                       dict_setitem(ItemsOf(r), k,
                           [item EXCEPT !.status_code_alias = changed])]
            /\ UNCHANGED strategy_devices
            /\ StrategyFrame

\* device.local_strategy = mapping
AssignPlain ==
    \E r \in {Owner}, table \in PlainTables :
        /\ strategy_devices[r]._local_strategy_version + 2 <= MaxVersion
        /\ LET after == local_strategy_set(strategy_devices, strategy_dicts, r, table)
           IN  /\ strategy_devices' = after.devs
               /\ strategy_dicts' = after.dicts
        /\ StrategyFrame

\* device.local_strategy = other.local_strategy
AssignShared ==
    \E r \in StrategyRecs \ {Owner} : \E other \in StrategyRecs \ {r} :
        /\ strategy_devices[r]._local_strategy_version < MaxVersion
        /\ LET after == local_strategy_set_dict(strategy_devices, strategy_dicts, r,
                            strategy_devices[other]._local_strategy)
           IN  /\ strategy_devices' = after.devs
               /\ strategy_dicts' = after.dicts
        /\ StrategyFrame

\* a lookup is made for record r: the caches are rebuilt if the versions
\* differ, unless the status range answered
ReadCodeFromDpId ==
    \E r \in StrategyRecs :
        /\ strategy_devices' = Synced(strategy_devices, strategy_dicts, r)
        /\ UNCHANGED strategy_dicts
        /\ OutsideStrategies /\ UNCHANGED resolved

ReadDpIdFromCode ==
    \E r \in StrategyRecs, code \in Codes :
        /\ strategy_devices' =
               IF StatusRangeAnswers(strategy_devices[r], code)
               THEN strategy_devices
               ELSE Synced(strategy_devices, strategy_dicts, r)
        /\ UNCHANGED strategy_dicts
        /\ OutsideStrategies /\ UNCHANGED resolved

\* device.status_range = {code: XTDeviceStatusRange(dp_id=...)}
AssignStatusRange ==
    \E r \in {Owner}, status_range \in StatusRanges :
        /\ strategy_devices' = [strategy_devices EXCEPT ![r].status_range = status_range]
        /\ UNCHANGED strategy_dicts
        /\ StrategyFrame

\* two records as XTDevice() makes them
TwoDevices ==
    LET one == XTDevice_init(<< >>, << >>, 1)
        two == XTDevice_init(one.devs, one.dicts, 2)
    IN  /\ strategy_devices = two.devs
        /\ strategy_dicts = two.dicts

InitStrategy ==
    /\ RunnerInit
    /\ MMInit
    /\ devices = << >>
    /\ data = [m \in MapIds |-> [d \in DeviceIds |-> NoDevice]]
    /\ last_op = NoOp
    /\ map_priority = [a \in Range(CycleAccounts) |-> NoPriority]
    /\ premerge = << >>
    /\ smart = << >>
    /\ resolved = << >>
    /\ TwoDevices

NextStrategy ==
    \/ LocalStrategyDict_setitem \/ LocalStrategyDict_delitem
    \/ LocalStrategyDict_clear \/ LocalStrategyDict_update
    \/ LocalStrategyDict_pop \/ LocalStrategyDict_popitem
    \/ LocalStrategyItemDict_setitem \/ LocalStrategyItemDict_delitem
    \/ AliasListInPlace \/ AssignPlain \/ AssignShared \/ AssignStatusRange
    \/ ReadCodeFromDpId \/ ReadDpIdFromCode

SpecStrategy == InitStrategy /\ [][NextStrategy]_vars

\* ------------------------- writes to records that carry a local strategy
\* A record is its attributes in devices and its strategy bookkeeping in
\* strategy_devices; the attribute local_strategy is what the property
\* returns, the content of the record's LocalStrategyDict.
FrameRecs == {1, 2, 3}
FrameIds == {"dev1", "dev2"}
\* mappings and values the client writes
FrameTables == {<<>>, <<[dp_id |-> 1, item |-> Item("a", <<"b">>)]>>}
FrameValues == [online |-> BOOLEAN, local_strategy |-> FrameTables, source |-> {"s"}]

RECURSIVE Frame_setattr(_, _, _, _)
RECURSIVE Frame_multimap(_, _, _, _, _)

\* XTDeviceMap.set_device_key_value
Frame_key_value(t, m, device_id, key, value) ==
    IF key \in FIELDS_TO_EXCLUDE_FROM_SYNC THEN t
    ELSE LET device == MapGet(m, device_id) IN
         IF /\ device # NoDevice
            /\ hasattr(t.heap[device], key)
            /\ t.heap[device][key] # value
         THEN Frame_setattr(t, device, key, value)
         ELSE t

\* XTDeviceMap.set_device_key_value_multimap
Frame_multimap(t, maps, device_id, key, value) ==
    IF key \in FIELDS_TO_EXCLUDE_FROM_SYNC \/ maps = <<>> THEN t
    ELSE Frame_multimap(Frame_key_value(t, Head(maps), device_id, key, value),
                        Tail(maps), device_id, key, value)

\* XTDevice.__setattr__: super().__setattr__ runs the setter of the property
\* when the attribute is local_strategy and assigns any other attribute; then
\* the broadcast, unless the attribute is excluded
Frame_setattr(t, r, attr, value) ==
    LET after == local_strategy_set(t.devs, t.dicts, r, value)
        assigned ==
            IF attr = "local_strategy"
            THEN [heap |-> [t.heap EXCEPT ![r].local_strategy = after.dicts[after.devs[r]._local_strategy].items],
                  devs |-> after.devs, dicts |-> after.dicts]
            ELSE [t EXCEPT !.heap[r][attr] = value]
    IN  IF attr \in FIELDS_TO_EXCLUDE_FROM_SYNC THEN assigned
        ELSE Frame_multimap(assigned, registered_maps, assigned.heap[r].id,
                            attr, value)

\* setattr(device, attr, value) by the client
WriteField ==
    \E r \in FrameRecs, attr \in DOMAIN FrameValues :
      \E value \in FrameValues[attr] :
        /\ attr = "local_strategy" =>
               \A o \in FrameRecs :
                   strategy_devices[o]._local_strategy_version + 2 <= MaxVersion
        /\ LET after == Frame_setattr([heap |-> devices, devs |-> strategy_devices,
                                       dicts |-> strategy_dicts], r, attr, value)
           IN  /\ devices' = after.heap
               /\ strategy_devices' = after.devs
               /\ strategy_dicts' = after.dicts
               /\ last_op' = [NoOp EXCEPT !.op = "write", !.rec = r, !.attr = attr,
                                 !.changed = {o \in FrameRecs \ {r} :
                                                 \/ after.heap[o] # devices[o]
                                                 \/ after.devs[o] # strategy_devices[o]}]
        /\ UNCHANGED <<data, registered_maps, map_priority, premerge, smart, resolved>>
        /\ UNCHANGED <<runnerVars, mmVars>>

\* three records as XTDevice() makes them
ThreeDevices ==
    LET one == XTDevice_init(<< >>, << >>, 1)
        two == XTDevice_init(one.devs, one.dicts, 2)
        three == XTDevice_init(two.devs, two.dicts, 3)
    IN  /\ strategy_devices = three.devs
        /\ strategy_dicts = three.dicts

\* records 1 and 2 have the id dev1, record 3 the id dev2; map 1 holds the
\* records 1 and 3, map 2 the record 2, each under its id; no map is
\* registered yet
InitFrame ==
    /\ RunnerInit
    /\ MMInit
    /\ devices = [r \in FrameRecs |->
                    [XTDevice(IF r = 3 THEN "dev2" ELSE "dev1", FALSE, Absent)
                        EXCEPT !.local_strategy = <<>>]]
    /\ data = [m \in MapIds |-> [d \in FrameIds |->
                  IF <<m, d>> = <<1, "dev1">> THEN 1
                  ELSE IF <<m, d>> = <<2, "dev1">> THEN 2
                  ELSE IF <<m, d>> = <<1, "dev2">> THEN 3
                  ELSE NoDevice]]
    /\ last_op = NoOp
    /\ map_priority = [a \in Range(CycleAccounts) |-> NoPriority]
    /\ premerge = << >>
    /\ smart = << >>
    /\ resolved = << >>
    /\ ThreeDevices

\* XTDeviceMap.register_device_map of one of the two maps that hold records
RegisterHolder ==
    \E m \in {1, 2} :
        /\ registered_maps' = register_device_map(registered_maps, m)
        /\ last_op' = NoOp
        /\ UNCHANGED <<devices, data, map_priority, premerge>>
        /\ RecFrame

NextFrame == RegisterHolder \/ WriteField

SpecFrame == InitFrame /\ [][NextFrame]_vars

\* ------------------------------------------------- properties of the runner
Alive == {j \in JobIds : thread[j] = "alive"}
Failed == {j \in JobIds : thread[j] = "failed"}
AllSubmittedFinished == \A j \in JobIds : thread[j] \in {"unborn", "ok", "failed"}
Returns == pc # "idle" /\ pc' = "idle"

\* C1: start_and_wait does not return, normally or by raising, before every
\* submitted job has finished; when it returns thread_queue and
\* thread_active_list are empty and no thread of thread_finished_list is alive.
C1_ReturnsAfterAllJobsFinished ==
    [][Returns =>
         /\ AllSubmittedFinished'
         /\ thread_queue' = <<>>
         /\ thread_active_list' = <<>>
         /\ \A i \in 1..Len(thread_finished_list') :
                thread'[thread_finished_list'[i]] # "alive"]_vars

\* three jobs were run under a cap of two and start_and_wait has returned
C1_Witness ==
    /\ pc = "idle"
    /\ result = "returned"
    /\ max_concurrency = 2
    /\ Len(thread_finished_list) = 3

\* C2: under a cap k the number of jobs that have been started and have not
\* yet finished is at most k in every reachable state.
C2_AtMostCapJobsActive ==
    max_concurrency # NoCap => Cardinality(Alive) <= max_concurrency

\* cap 1 with three jobs: one has finished, one runs, one still waits
C2_Witness ==
    /\ max_concurrency = 1
    /\ Cardinality(Alive) = 1
    /\ Len(thread_finished_list) = 1
    /\ Len(thread_queue) = 1

\* C3: a job that raises changes nothing but its own thread (the failure is
\* captured in the job, the caller and the sibling jobs go on); the failure is
\* raised to the caller of start_and_wait, and only after all jobs of the
\* batch have finished.
C3_FailureCapturedAndRaisedAtTheEnd ==
    [][/\ (\E j \in JobIds : thread[j] = "alive" /\ thread'[j] = "failed")
            => UNCHANGED <<thread_queue, thread_active_list,
                           thread_finished_list, pc, result>>
       /\ Returns =>
            /\ (result' = "raised") <=> (\E j \in batch : thread[j] = "failed")
            /\ (result' = "raised") => \A j \in batch : thread'[j] \in {"ok", "failed"}
      ]_vars

\* cap 1: the failed job ended first, its sibling was started afterwards and
\* ran to completion, then the failure was raised
C3_Witness ==
    /\ pc = "idle"
    /\ result = "raised"
    /\ max_concurrency = 1
    /\ Len(thread_finished_list) >= 2
    /\ thread[thread_finished_list[1]] = "failed"
    /\ thread[thread_finished_list[2]] = "ok"

\* C4: a start_and_wait whose batch has only succeeding jobs returns without
\* raising, whatever failures earlier batches on the same manager raised.
C4_FailuresAreOneShotPerBatch ==
    [][(Returns /\ \A j \in batch : thread[j] # "failed")
          => result' = "returned"]_vars

\* two earlier batches raised, the third batch succeeded and returned
C4_Witness ==
    /\ pc = "idle"
    /\ result = "returned"
    /\ batch # {}
    /\ Cardinality(delivered) >= 2

\* C5: no captured failure is dropped: every failed job has been raised to
\* the caller or is still held by the manager, where the caller can read it.
C5_NoFailureDropped ==
    \A j \in Failed :
        \/ j \in delivered
        \/ j \in Range(thread_finished_list)
        \/ j \in Range(thread_active_list)

\* C6: every finished job is eventually moved from the active list to the
\* finished list, every queued job eventually starts, and start_and_wait
\* eventually returns with all jobs completed.
C6_EveryJobCompletesAndCallReturns ==
    /\ \A j \in JobIds :
          (thread[j] \in {"ok", "failed"} /\ j \in Range(thread_active_list))
             ~> (j \in Range(thread_finished_list))
    /\ \A j \in JobIds :
          (pc # "idle" /\ j \in Range(thread_queue)) ~> (thread[j] # "new")
    /\ (pc # "idle") ~> (pc = "idle" /\ AllSubmittedFinished)

\* cap 1 with three jobs: all three were moved to the finished list
C6_Witness ==
    /\ pc = "idle"
    /\ max_concurrency = 1
    /\ Len(thread_finished_list) = 3
    /\ thread_queue = <<>>

\* ------------------------------------------------- properties of the router
\* the delivery numbers of a list of messages are strictly increasing
InArrivalOrder(list) ==
    \A i, j \in 1..Len(list) : i < j => list[i].n < list[j].n

Occurrences(list, n) == Cardinality({i \in 1..Len(list) : list[i].n = n})

\* C7: the messages buffered while the router was Buffering go through the
\* Live path in their arrival order when the refresh cycle makes the router
\* Live, and before every message that is delivered afterwards: the flush
\* appends the whole buffer, in order, to the messages processed so far, and
\* no message is ever processed ahead of an earlier one.
C7_BufferedReplayedInOrderBeforeLater ==
    /\ [] InArrivalOrder(live_log \o pending_messages)
    /\ [][(~is_ready_for_messages /\ is_ready_for_messages') =>
             /\ live_log' = live_log \o pending_messages
             /\ pending_messages' = <<>>]_vars

\* two buffered messages were replayed and a message delivered after the
\* transition was processed after them
C7_Witness ==
    \E i, j, k \in 1..Len(live_log) :
        /\ i < j /\ j < k
        /\ live_log[i].n \in was_buffered
        /\ live_log[j].n \in was_buffered
        /\ live_log[k].n \notin was_buffered

\* C8: every buffered message is processed by the Live path exactly once: it
\* is either still in the buffer or was processed once, never both and never
\* twice, and the buffer is empty whenever a flush is over, also when the
\* processing of a replayed message raised.
C8_BufferedProcessedExactlyOnce ==
    /\ \A n \in was_buffered :
          Occurrences(live_log, n) + Occurrences(pending_messages, n) = 1
    /\ (mm_pc = "idle" /\ is_ready_for_messages) => pending_messages = <<>>

\* C9 as stated: once readiness is established it never becomes false again.
C9_ReadinessNeverTakenBack ==
    [][is_ready_for_messages => is_ready_for_messages']_vars

\* C9 amended: readiness becomes false again only when update_device_cache
\* starts a new refresh cycle, and as long as it is true every on_message call
\* is processed at once instead of being buffered.
C9_ReadinessTakenBackOnlyByRefresh ==
    [][/\ (is_ready_for_messages /\ ~is_ready_for_messages')
            => (mm_pc = "idle" /\ mm_pc' = "refreshing")
       /\ (is_ready_for_messages /\ nmsgs' = nmsgs + 1)
            => /\ pending_messages' = pending_messages
               /\ Len(live_log') = Len(live_log) + 1
               /\ live_log'[Len(live_log')].n = nmsgs'
      ]_vars

\* a second refresh cycle has taken readiness back after a message had been
\* processed at once, and a message is buffered again
C9_Witness ==
    /\ cycle = 2
    /\ mm_pc = "refreshing"
    /\ ~is_ready_for_messages
    /\ \E i \in 1..Len(live_log) : live_log[i].n \notin was_buffered
    /\ pending_messages # <<>>

\* C10: when update_device_cache ends by raising, the cycle has been carried
\* through: the master map holds the ids of the source maps, the maps are
\* registered, the pending messages are flushed and the router is Live.
C10_FailedRefreshStillCompletesCycle ==
    (mm_pc = "idle" /\ mm_result = "raised") =>
        /\ \A a \in Accounts : \A d \in source_map[a] : master_device_map[d] # 0
        /\ registered_maps # <<>>
        /\ pending_messages = <<>>
        /\ is_ready_for_messages

\* ------------------------------------------- properties of the master map
\* ids held by the master map, and ids held by the per-source maps
MasterIds == {d \in DeviceIds : master_device_map[d] # 0}
SourceIds == UNION {source_map[a] : a \in Accounts}

\* C11: the master map is rebuilt on every refresh cycle: when
\* update_device_cache has returned, the ids of the master map are the union
\* of the ids of the per-source maps of that cycle and every master record is
\* one of that cycle's source records; nothing of an earlier cycle survives.
C11_MasterMapRebuiltEachCycle ==
    (mm_pc = "idle" /\ mm_result = "ok") =>
        /\ MasterIds = SourceIds
        /\ \A d \in MasterIds : d \in source_map[master_device_map[d]]

\* -------------------------------------------- properties of the propagation
\* records with the written record's id that registered maps hold
RegisteredPeers(r) ==
    {data[registered_maps[i]][d] : i \in 1..Len(registered_maps), d \in DeviceIds}
        \cap {t \in DOMAIN devices : devices[t].id = devices[r].id}

\* C15: when a write of value v to a non-excluded attribute f of a record
\* with id d is over, every record with id d of every registered map that has
\* the attribute f holds v.
C15_WritePropagatedToRegisteredMaps ==
    (last_op.op = "write" /\ last_op.attr \notin FIELDS_TO_EXCLUDE_FROM_SYNC) =>
        /\ devices[last_op.rec][last_op.attr] = last_op.value
        /\ \A t \in RegisteredPeers(last_op.rec) :
              hasattr(devices[t], last_op.attr)
                  => devices[t][last_op.attr] = last_op.value

\* a write to a record held by one registered map changed the record, another
\* object, that a second registered map holds under the same id
C15_Witness ==
    /\ last_op.op = "write"
    /\ last_op.attr = "online"
    /\ Len(registered_maps) >= 2
    /\ last_op.rec \in RegisteredPeers(last_op.rec)
    /\ last_op.changed # {}
    /\ last_op.changed \subseteq RegisteredPeers(last_op.rec)

\* ---------------------------------------------- properties of the registry
\* C17: register_device_map(m) makes the map object m a member of the
\* registry and changes nothing when m is already a member, also when another
\* map with equal contents is registered; unregister_device_map(m) removes m
\* and no other map; clear_master_device_map empties the registry.
C17_RegistryHoldsMapObjects ==
    /\ last_op.op = "register" =>
          /\ last_op.map \in Range(registered_maps)
          /\ registered_maps =
                IF last_op.map \in Range(last_op.before) THEN last_op.before
                ELSE Append(last_op.before, last_op.map)
    /\ last_op.op = "unregister" =>
          Range(registered_maps) = Range(last_op.before) \ {last_op.map}
    /\ last_op.op = "clear" => registered_maps = <<>>

\* -------------------------------------- properties of the record-level cycle
\* C12: every record that a device map holds has its device_map attribute
\* equal to that map, whether it came in at construction or by item assignment.
C12_RecordsOwnedByTheirMap ==
    \A m \in MapIds : \A d \in DeviceIds :
        data[m][d] # NoDevice => devices[data[m][d]].device_map = m

\* update_device_cache has returned normally
CycleDone == mm_pc = "idle" /\ mm_result = "ok"

\* attributes of the model outside FIELDS_TO_EXCLUDE_FROM_SYNC
SyncedFields == {"online", "force_compatibility", "function", "local_strategy", "extra"}

\* C16: after the realignment pass of a refresh cycle, for every device id
\* and every attribute outside the excluded set, the local strategy included,
\* every registered map that holds a record with the id holds the value of
\* the master record.
C16_RegisteredMapsAlignedWithMaster ==
    CycleDone =>
        \A i \in 1..Len(registered_maps) : \A d \in DeviceIds :
            LET t == data[registered_maps[i]][d]
                master == data[0][d]
            IN (t # NoDevice /\ master # NoDevice) =>
                  \A f \in SyncedFields :
                      (hasattr(devices[t], f) /\ hasattr(devices[master], f))
                          => devices[t][f] = devices[master][f]

\* accounts whose device map holds the id
Contributors(d) == {a \in Range(CycleAccounts) : data[a][d] # NoDevice}

\* the contributing account with the numerically highest priority
HighestPriority(d) ==
    CHOOSE a \in Contributors(d) :
        \A b \in Contributors(d) : map_priority[b] <= map_priority[a]

\* C18: after update_device_cache, for every device id that two or more
\* account maps hold, the master map holds a record for the id and each of its
\* merged attributes has the value that the contributing account with the
\* highest priority reported, except that the functional attributes of a master
\* record with force_compatibility have their values from before the merge.
C18_MasterHoldsHighestPriorityValues ==
    CycleDone =>
        \A d \in DeviceIds :
            Cardinality(Contributors(d)) >= 2 =>
                /\ data[0][d] # NoDevice
                /\ \A f \in MergedFields :
                      devices[data[0][d]][f] =
                          IF f \in FunctionalFields
                             /\ premerge[data[0][d]].force_compatibility
                          THEN premerge[data[0][d]][f]
                          ELSE premerge[data[HighestPriority(d)][d]][f]

\* ================================================ MessageHandler, status items
\* multi_manager.device_map.get(device_id): "dev1" is in the master map and is
\* the first record, "dev2" is in no map
NoRec == 0
ResolveDeviceIds == {"dev1", "dev2"}
device_map_get(device_id) == IF device_id = "dev1" THEN Owner ELSE NoRec

RawItems ==
    { RawItem(None, 1, "v", <<>>),
      RawItem("b", NoDpId, "v", <<>>),
      RawItem("b", 1, "v", <<>>),
      RawItem("x", NoDpId, "v", <<>>),
      RawItem(None, 3, "v", <<>>),
      RawItem(None, NoDpId, "v", <<>>),
      RawItem(None, NoDpId, None,
              <<[key |-> NoDpId, value |-> "w"], [key |-> 2, value |-> "w"]>>) }
\* the batches of a device report
Batches ==
    { <<RawItem(None, 1, "v", <<>>)>>,
      <<RawItem(None, 3, "v", <<>>), RawItem("b", NoDpId, "v", <<>>)>>,
      <<RawItem("x", NoDpId, "v", <<>>), RawItem(None, 1, "v", <<>>)>> }

_extract_initial_state(state) ==
    [code |-> state.code, dp_id |-> state.dpId, value |-> state.value]

\* the code from the id, or the id from the code
_resolve_code_and_dpid(code, dp_id, r) ==
    IF code = None /\ dp_id # NoDpId
    THEN [code |-> _read_code_from_dpId(dp_id, r), dp_id |-> dp_id]
    ELSE IF dp_id = NoDpId /\ code # None
    THEN [code |-> code, dp_id |-> _read_dpId_from_code(code, r)]
    ELSE [code |-> code, dp_id |-> dp_id]

_resolve_code_alias_Keep(dp_id, code, r) == code

\* the main code of the id replaces the code, when the id has one
_resolve_code_alias(dp_id, code, r) ==
    IF _read_code_from_dpId(dp_id, r) # None
    THEN _read_code_from_dpId(dp_id, r) ELSE code

\* the first key of the item that is a number with a code
RECURSIVE _find_code_dpid_from_state_items(_, _, _)
_find_code_dpid_from_state_items(bag, r, original_value) ==
    IF Len(bag) = 0
    THEN [code |-> None, dp_id |-> NoDpId, value |-> original_value]
    ELSE IF Head(bag).key # NoDpId /\ _read_code_from_dpId(Head(bag).key, r) # None
    THEN [code |-> _read_code_from_dpId(Head(bag).key, r),
          dp_id |-> Head(bag).key, value |-> Head(bag).value]
    ELSE _find_code_dpid_from_state_items(Tail(bag), r, original_value)

Success(code, dp_id, value) ==
    [code |-> code, dp_id |-> dp_id, value |-> value, ok |-> TRUE]

Acceptable_Either(code, dp_id, fail_if_dpid_not_found, fail_if_code_not_found) ==
    ~ ((code = None /\ fail_if_code_not_found)
       /\ (dp_id = NoDpId /\ fail_if_dpid_not_found))

\* success = not ((code is None and fail_if_code_not_found)
\*                or (dp_id is None and fail_if_dpid_not_found))
Acceptable(code, dp_id, fail_if_dpid_not_found, fail_if_code_not_found) ==
    ~ ((code = None /\ fail_if_code_not_found)
       \/ (dp_id = NoDpId /\ fail_if_dpid_not_found))

\* what the attempts resolve for a record of the master map
Resolution(state, r) ==
    LET initial == _extract_initial_state(state)
        first == _resolve_code_and_dpid(initial.code, initial.dp_id, r)
        code == IF first.dp_id # NoDpId
                THEN _resolve_code_alias(first.dp_id, first.code, r)
                ELSE first.code
    IN  IF code = None /\ first.dp_id = NoDpId
        THEN _find_code_dpid_from_state_items(state.bag, r, initial.value)
        ELSE [code |-> code, dp_id |-> first.dp_id, value |-> initial.value]

\* MessageHandler._read_code_dpid_value_from_state: what it returns
_read_code_dpid_value_from_state(device_id, state, fail_if_dpid_not_found, fail_if_code_not_found) ==
    IF device_map_get(device_id) = NoRec
    THEN IF Acceptable(None, NoDpId, fail_if_dpid_not_found, fail_if_code_not_found)
         THEN Success(None, NoDpId, state.value)
         ELSE Failure
    ELSE LET found == Resolution(state, device_map_get(device_id)) IN
         IF Acceptable(found.code, found.dp_id, fail_if_dpid_not_found,
                       fail_if_code_not_found)
         THEN Success(found.code, found.dp_id, found.value)
         ELSE Failure

\* the call makes a lookup, which rebuilds stale lookups of the record
MakesLookup(state) ==
    \/ state.code # None
    \/ state.dpId # NoDpId
    \/ \E i \in 1..Len(state.bag) : state.bag[i].key # NoDpId

RECURSIVE AfterLookups(_, _, _)
AfterLookups(devs, device_id, items) ==
    IF Len(items) = 0 \/ device_map_get(device_id) = NoRec THEN devs
    ELSE AfterLookups(IF MakesLookup(Head(items))
                      THEN Synced(devs, strategy_dicts, device_map_get(device_id))
                      ELSE devs,
                      device_id, Tail(items))

\* convert_device_report_status_list: item i of the copied list after the loop
ConvertedItem(device_id, item) ==
    LET got == _read_code_dpid_value_from_state(device_id, item, TRUE, TRUE) IN
    IF got.ok
    THEN [item EXCEPT !.code = got.code, !.dpId = got.dp_id, !.value = got.value]
    ELSE item

RECURSIVE convert_device_report_status_list(_, _)
convert_device_report_status_list(device_id, status_in) ==
    IF Len(status_in) = 0 THEN <<>>
    ELSE <<ConvertedItem(device_id, Head(status_in))>>
             \o convert_device_report_status_list(device_id, Tail(status_in))

\* _read_code_dpid_value_from_state is called for one raw item
ResolveItem ==
    \E device_id \in ResolveDeviceIds, state \in RawItems,
       fail_if_dpid_not_found \in BOOLEAN, fail_if_code_not_found \in BOOLEAN :
        /\ resolved' = [NoCall EXCEPT
               !.op = "item", !.device_id = device_id, !.state = state,
               !.fail_if_dpid_not_found = fail_if_dpid_not_found,
               !.fail_if_code_not_found = fail_if_code_not_found,
               !.result = _read_code_dpid_value_from_state(device_id, state,
                              fail_if_dpid_not_found, fail_if_code_not_found)]
        /\ strategy_devices' = AfterLookups(strategy_devices, device_id, <<state>>)
        /\ UNCHANGED strategy_dicts
        /\ OutsideStrategies

\* convert_device_report_status_list is called for a batch
ConvertBatch ==
    \E device_id \in ResolveDeviceIds, status_in \in Batches :
        /\ resolved' = [NoCall EXCEPT
               !.op = "batch", !.device_id = device_id, !.status_in = status_in,
               !.status_out = convert_device_report_status_list(device_id, status_in)]
        /\ strategy_devices' = AfterLookups(strategy_devices, device_id, status_in)
        /\ UNCHANGED strategy_dicts
        /\ OutsideStrategies

InitResolve ==
    /\ RunnerInit
    /\ MMInit
    /\ devices = << >>
    /\ data = [m \in MapIds |-> [d \in DeviceIds |-> NoDevice]]
    /\ last_op = NoOp
    /\ map_priority = [a \in Range(CycleAccounts) |-> NoPriority]
    /\ premerge = << >>
    /\ smart = << >>
    /\ resolved = NoCall
    /\ TwoDevices

\* the record's strategy is changed through its mapping and its entries, and
\* status items are resolved in between
NextResolve ==
    \/ AssignPlain \/ LocalStrategyDict_setitem \/ AssignStatusRange
    \/ ResolveItem \/ ConvertBatch

SpecResolve == InitResolve /\ [][NextResolve]_vars

\* ===================================================== XTMergingManager
\* the elements of the sets handed to smart_merge: 1..5 in the test
MaxElement == 5
Elements == 1..MaxElement

smart_merge_Overwrite(left, right) == right

\* XTMergingManager.smart_merge on two sets: the union, not an overwrite
smart_merge(left, right) == left \cup right

\* a caller reconciles two set-valued fields: in the order given, with the
\* arguments exchanged, and the first set with itself
SmartMerge ==
    /\ ~smart.called
    /\ smart' = [smart EXCEPT !.called = TRUE,
                              !.result = smart_merge(smart.left, smart.right),
                              !.exchanged = smart_merge(smart.right, smart.left),
                              !.itself = smart_merge(smart.left, smart.left)]
    /\ UNCHANGED <<runnerVars, mmVars, devices, data, last_op, map_priority,
                   premerge, strategyVars, resolved>>

\* any two sets of elements, smart_merge not called yet
InitMerge ==
    /\ RunnerInit
    /\ MMInit
    /\ devices = << >>
    /\ data = [m \in MapIds |-> [d \in DeviceIds |-> NoDevice]]
    /\ last_op = NoOp
    /\ map_priority = [a \in Range(CycleAccounts) |-> NoPriority]
    /\ premerge = << >>
    /\ strategy_devices = << >>
    /\ strategy_dicts = << >>
    /\ resolved = << >>
    /\ smart \in [left : SUBSET Elements, right : SUBSET Elements,
                  called : {FALSE}, result : {{}}, exchanged : {{}}, itself : {{}}]

NextMerge == SmartMerge

SpecMerge == InitMerge /\ [][NextMerge]_vars

\* ----------------------------------------- properties of the local strategy
\* the canonical code of an id in the current strategy of record r
CanonicalCode(r, dpId) ==
    IF dpId \in Keys(ItemsOf(r)) THEN GetItem(ItemsOf(r), dpId).status_code ELSE None
\* the current entry of id has the code as canonical or alias code
EntryHasCode(r, dpId, code) ==
    /\ dpId \in Keys(ItemsOf(r))
    /\ \/ GetItem(ItemsOf(r), dpId).status_code = code
       \/ code \in Range(GetItem(ItemsOf(r), dpId).status_code_alias)

\* C13: whatever mutations of a record's local strategy were made and however
\* they are interleaved with lookups, _read_code_from_dpId(id) returns the
\* canonical code of id in the current strategy (or not found), and
\* _read_dpId_from_code(code) returns not found or an id whose current entry
\* has the code as canonical or alias code, with no explicit rebuild.
C13_LookupsAnswerFromCurrentStrategy ==
    \A r \in StrategyRecs :
        /\ \A dpId \in DpIds : _read_code_from_dpId(dpId, r) = CanonicalCode(r, dpId)
        /\ \A code \in Codes :
              _read_dpId_from_code(code, r) # NoDpId
                  => EntryHasCode(r, _read_dpId_from_code(code, r), code)

\* the cached lookups of record r are those of its current strategy
CachesValid(r) ==
    /\ strategy_devices[r].code_to_dpid = Built(ItemsOf(r)).code_to_dpid
    /\ strategy_devices[r].dpid_to_code = Built(ItemsOf(r)).dpid_to_code

\* C14: for every record, equal cache and strategy versions mean that the
\* cached lookups are those of the current strategy, and every step that
\* changes the record's strategy, also one made through a mapping shared with
\* or taken from another record, increments that record's strategy version.
C14_EqualVersionsMeanValidCaches ==
    /\ [](\A r \in StrategyRecs :
            strategy_devices[r]._local_strategy_cache_version
                = strategy_devices[r]._local_strategy_version
            => CachesValid(r))
    /\ [][\A r \in StrategyRecs :
            ItemsOf(r)' # ItemsOf(r)
            => strategy_devices'[r]._local_strategy_version
                   > strategy_devices[r]._local_strategy_version]_vars

\* ------------------------------------------------ properties of smart_merge
\* C19: reconciling two set-valued fields yields their union: every element
\* of either set is in the result and nothing else is; the result is the same
\* with the arguments exchanged, and a set merged with itself gives an equal
\* set.
C19_SetsAreMergedByUnion ==
    smart.called =>
        /\ \A e \in Elements : e \in smart.result <=> (e \in smart.left \/ e \in smart.right)
        /\ smart.result \subseteq Elements
        /\ smart.exchanged = smart.result
        /\ smart.itself = smart.left

\* the sets of test_smart_merge_sets were merged
C19_Witness ==
    /\ smart.called
    /\ smart.left = {1, 2, 3}
    /\ smart.right = {3, 4, 5}
    /\ smart.result = {1, 2, 3, 4, 5}

\* -------------------------------------------------- properties of the router
\* the entries of a list of calls that belong to message n
CallsFor(list, n) == {i \in 1..Len(list) : list[i].n = n}
\* on_message is called while the router is Live, directly by a source
LiveCall == is_ready_for_messages /\ nmsgs' = nmsgs + 1
\* the message of the call
LiveMsg == live_log'[Len(live_log')]
\* the call did nothing but return
Dropped ==
    /\ status_lists' = status_lists
    /\ account_messages' = account_messages
    /\ is_ready_for_messages' = is_ready_for_messages
    /\ pending_messages' = pending_messages
\* the call handled the message under the id: its status list is registered
\* under it and the message is forwarded to the account of the source
HandledAs(id) ==
    /\ (LiveMsg.msg.protocol = PROTOCOL_DEVICE_REPORT /\ LiveMsg.msg.status # None)
           => /\ Len(status_lists') = Len(status_lists) + 1
              /\ status_lists'[Len(status_lists')].dev_id = id
    /\ LiveMsg.source \in Accounts
           => /\ Len(account_messages') = Len(account_messages) + 1
              /\ account_messages'[Len(account_messages')].n = LiveMsg.n

\* the id as the claim extracts it: data.devId, otherwise data.bizData.devId
IdDirectOrNested(msg) ==
    IF msg.devId # None THEN msg.devId ELSE msg.bizDevId
\* the id with the nested shape read under PROTOCOL_OTHER only
IdNestedUnderProtocolOther(msg) ==
    IF msg.devId # None THEN msg.devId
    ELSE IF msg.protocol = PROTOCOL_OTHER THEN msg.bizDevId
    ELSE None

\* C20 as stated: a Live on_message takes the device id from data.devId if
\* present and otherwise from data.bizData.devId; when neither yields an id
\* the message is dropped: nothing is registered with the status aggregator,
\* nothing is forwarded to an adapter, readiness and buffer are unchanged.
C20_IdFromDirectOrNestedField ==
    [][LiveCall =>
          IF IdDirectOrNested(LiveMsg.msg) = None THEN Dropped
          ELSE HandledAs(IdDirectOrNested(LiveMsg.msg))]_vars

\* C20 amended: a Live on_message takes the device id from data.devId if
\* present and otherwise, for a PROTOCOL_OTHER message only, from
\* data.bizData.devId; when that yields no id the message is dropped: nothing
\* is registered with the status aggregator, nothing is forwarded to an
\* adapter, readiness and buffer are unchanged.
C20_NestedIdOnlyUnderProtocolOther ==
    [][LiveCall =>
          IF IdNestedUnderProtocolOther(LiveMsg.msg) = None THEN Dropped
          ELSE HandledAs(IdNestedUnderProtocolOther(LiveMsg.msg))]_vars

\* while Live, a report with only the nested id and a message without any id
\* were dropped, and a PROTOCOL_OTHER message was forwarded under its nested id
C20_Witness ==
    /\ is_ready_for_messages
    /\ \E i, j, k \in 1..Len(live_log) :
          /\ {live_log[i].n, live_log[j].n, live_log[k].n} \cap was_buffered = {}
          /\ live_log[i].source \in Accounts
          /\ live_log[i].msg = Payload(PROTOCOL_DEVICE_REPORT, None, "dev2", "status")
          /\ CallsFor(status_lists, live_log[i].n) = {}
          /\ CallsFor(account_messages, live_log[i].n) = {}
          /\ live_log[j].source \in Accounts
          /\ live_log[j].msg = Payload(PROTOCOL_OTHER, None, None, None)
          /\ CallsFor(account_messages, live_log[j].n) = {}
          /\ live_log[k].msg = Payload(PROTOCOL_OTHER, None, "dev2", None)
          /\ CallsFor(account_messages, live_log[k].n) # {}

\* the message as the source delivered it: the entry of the log with number n
DeliveredAs(n) == live_log[CHOOSE i \in 1..Len(live_log) : live_log[i].n = n].msg

\* C21: every forwarded message carries at data.devId the device id that was
\* extracted from it: filled from data.bizData.devId when the direct field is
\* absent, and the payload is passed on as it came when the direct field is
\* present, also when a nested id with another value exists.
C21_ForwardedPayloadCarriesExtractedId ==
    \A i \in 1..Len(account_messages) :
        LET sent == account_messages[i].msg
            came == DeliveredAs(account_messages[i].n)
        IN  /\ sent.devId = _get_device_id_from_message(came)
            /\ came.devId # None => sent = came

\* ------------------------------------------- properties of the status items
\* the record of the device of the last call, NoRec when it is in no map
ResolvedRec == device_map_get(resolved.device_id)
\* some key of the item is a number the record has a code for
BagRecognized(state, r) ==
    \E i \in 1..Len(state.bag) :
        /\ state.bag[i].key # NoDpId
        /\ _read_code_from_dpId(state.bag[i].key, r) # None
\* a code is there after all attempts: the item's own, the one of its id, or
\* the one of a recognized key when the item has neither code nor id
CodeResolved(state, r) ==
    /\ r # NoRec
    /\ \/ state.code # None
       \/ state.dpId # NoDpId /\ _read_code_from_dpId(state.dpId, r) # None
       \/ state.dpId = NoDpId /\ BagRecognized(state, r)
\* an id is there after all attempts
IdResolved(state, r) ==
    /\ r # NoRec
    /\ \/ state.dpId # NoDpId
       \/ state.code # None /\ _read_dpId_from_code(state.code, r) # NoDpId
       \/ state.code = None /\ BagRecognized(state, r)

\* C22: for a device of the master map, when the call succeeds with an id
\* that the strategy maps to a canonical code, the returned code is that
\* canonical code, never an alias, whether the item carried the id, an alias
\* code, or an id and another code.
C22_ResolvedCodeIsCanonical ==
    ( /\ resolved.op = "item"
      /\ ResolvedRec # NoRec
      /\ resolved.result.ok
      /\ resolved.result.dp_id # NoDpId
      /\ CanonicalCode(ResolvedRec, resolved.result.dp_id) # None )
    => resolved.result.code = CanonicalCode(ResolvedRec, resolved.result.dp_id)

\* an item with id 1 and the alias "b" of entry 1 came back with the code "a"
C22_Witness ==
    /\ resolved.op = "item"
    /\ resolved.device_id = "dev1"
    /\ resolved.state = RawItem("b", 1, "v", <<>>)
    /\ 1 \in Keys(ItemsOf(Owner))
    /\ "b" \in Range(GetItem(ItemsOf(Owner), 1).status_code_alias)
    /\ resolved.result.ok
    /\ resolved.result.code = "a"
    /\ resolved.result.dp_id = 1

\* C23: the call succeeds exactly when (a code was resolved or a missing code
\* is allowed) and (an id was resolved or a missing id is allowed), for every
\* item and both flags, also for a device that is in no map; a failed call
\* returns no code, no id and no value.
C23_SuccessIffRequiredPartsResolved ==
    resolved.op = "item" =>
        /\ resolved.result.ok <=>
              /\ CodeResolved(resolved.state, ResolvedRec)
                     \/ ~resolved.fail_if_code_not_found
              /\ IdResolved(resolved.state, ResolvedRec)
                     \/ ~resolved.fail_if_dpid_not_found
        /\ ~resolved.result.ok => resolved.result = Failure

\* a call that needs the code only succeeded without an id, and would have
\* failed had the id been needed
C23_Witness ==
    /\ resolved.op = "item"
    /\ resolved.device_id = "dev1"
    /\ resolved.state = RawItem("x", NoDpId, "v", <<>>)
    /\ resolved.fail_if_code_not_found
    /\ ~resolved.fail_if_dpid_not_found
    /\ resolved.result = Success("x", NoDpId, "v")
    /\ ~_read_code_dpid_value_from_state("dev1", resolved.state, TRUE, TRUE).ok

\* the item is accepted when both its code and its id are found
ItemAccepted(device_id, item) ==
    _read_code_dpid_value_from_state(device_id, item, TRUE, TRUE).ok

\* the item with the code, id and value of its own resolution
ItemResolvedAlone(device_id, item) ==
    LET got == _read_code_dpid_value_from_state(device_id, item, TRUE, TRUE) IN
    [code |-> got.code, dpId |-> got.dp_id, value |-> got.value, bag |-> item.bag]

AcceptedItems(device_id, status_in) ==
    SelectSeq(status_in, LAMBDA item : ItemAccepted(device_id, item))

\* C24: a batch is resolved item by item: the returned batch holds, in order,
\* exactly the items whose code and id were found, each with the result of
\* its own resolution; an item that was rejected is not in the returned batch
\* and does not change what is returned for the others.
C24_RejectedItemsAreDropped ==
    resolved.op = "batch" =>
        LET accepted == AcceptedItems(resolved.device_id, resolved.status_in) IN
        resolved.status_out =
            [i \in 1..Len(accepted) |->
                ItemResolvedAlone(resolved.device_id, accepted[i])]

\* C24, the part that holds: every item of the batch is answered by its own
\* resolution, whatever the other items are
C24_ItemsResolveIndependently ==
    resolved.op = "batch" =>
        /\ Len(resolved.status_out) = Len(resolved.status_in)
        /\ \A i \in 1..Len(resolved.status_in) :
               ItemAccepted(resolved.device_id, resolved.status_in[i]) =>
                   resolved.status_out[i] =
                       ItemResolvedAlone(resolved.device_id, resolved.status_in[i])

\* C25: when the router goes from Buffering to Live, every buffered message
\* is replayed first, the buffer is cleared next and readiness is marked
\* last: readiness is never true while the buffer holds a message, and the
\* step that marks readiness leaves an empty buffer whose messages all went
\* through the Live path.
C25_ReadinessMarkedAfterReplayAndClear ==
    /\ [](is_ready_for_messages => pending_messages = <<>>)
    /\ [][(~is_ready_for_messages /\ is_ready_for_messages') =>
              /\ pending_messages' = <<>>
              /\ \A i \in 1..Len(pending_messages) :
                     \E k \in 1..Len(live_log') : live_log'[k] = pending_messages[i]
         ]_vars

\* C25, the order of the source: readiness is marked while the buffer is as
\* it was, the replay runs with readiness marked, and the buffer is cleared
\* only when each of its messages went through the Live path
C25_MarkedThenReplayedThenCleared ==
    /\ [][(~is_ready_for_messages /\ is_ready_for_messages') =>
              pending_messages' = pending_messages /\ live_log' = live_log]_vars
    /\ [][live_log' # live_log => is_ready_for_messages]_vars
    /\ [][(pending_messages # <<>> /\ pending_messages' = <<>>) =>
              /\ is_ready_for_messages
              /\ Cardinality(Replayed) = Len(pending_messages)]_vars

\* the second of two buffered messages is about to be replayed: readiness is
\* marked and the buffer still holds both
C25_Witness ==
    /\ mm_pc = "replay"
    /\ is_ready_for_messages
    /\ Len(pending_messages) = 2
    /\ Cardinality(Replayed) = 1
    /\ live_log # <<>>
    /\ live_log[Len(live_log)] = pending_messages[1]

\* C26: the assignment that a broadcast makes on a record of a registered map
\* is a plain one: one field write by the client leads to at most one
\* broadcast over the registry, the one of the written record itself.
C26_BroadcastAssignsWithoutBroadcasting ==
    last_op.op = "write" => last_op.broadcasts <= 1

\* C26, what the nested broadcasts leave alone: the records that end with
\* another value are those a single broadcast would have assigned
C26_NestedBroadcastsChangeNothingMore ==
    last_op.op = "write" =>
        \A t \in last_op.changed :
            /\ devices[t].id = devices[last_op.rec].id
            /\ devices[t][last_op.attr] = last_op.value
            /\ \E i \in 1..Len(registered_maps) :
                   MapGet(registered_maps[i], devices[t].id) = t

\* the record objects that the account maps hold
HeldByAccounts(maps) ==
    {maps[a][d] : a \in Range(CycleAccounts), d \in DeviceIds} \ {NoDevice}

\* C27: in a refresh cycle the registry is emptied once, when the cycle
\* starts, and filled again only after the merge: it is empty from the start
\* of the refresh jobs until the registrations, it changes only by the
\* emptying and by the registrations, and meanwhile the writes of the refresh
\* and of the merge reach no record but those of the account maps, so that a
\* record left in a map that an earlier cycle registered keeps its values.
C27_RegistryEmptyFromRefreshToRealignment ==
    /\ [](mm_pc \in {"jobs", "merge", "register"} => registered_maps = <<>>)
    /\ [][registered_maps' # registered_maps =>
              ((mm_pc = "idle" /\ mm_pc' = "jobs" /\ registered_maps' = <<>>)
                  \/ (mm_pc = "register" /\ mm_pc' = "align"))
         ]_vars
    /\ [][(mm_pc \in {"jobs", "merge"}) =>
              (\A o \in DOMAIN devices :
                  o \notin HeldByAccounts(data') => devices'[o] = devices[o])
         ]_vars

\* the merge of a second cycle is done: the master map still holds a record
\* of the first cycle, whose value the merge did not reach
C27_Witness ==
    /\ cycle = 2
    /\ mm_pc = "register"
    /\ registered_maps = <<>>
    /\ data[0]["dev1"] # NoDevice
    /\ data[0]["dev1"] \notin HeldByAccounts(data)
    /\ \E o \in HeldByAccounts(data) :
           /\ devices[o].id = "dev1"
           /\ devices[o].online # devices[data[0]["dev1"]].online
           /\ devices[o].online # premerge[o].online

\* the records of the id of the master record of d, in account order
RecordsOf(d) == _get_devices_from_device_id(devices[data[0][d]].id, CycleAccounts)

RECURSIVE ApplyPairs(_, _)
ApplyPairs(heap, pairs) ==
    IF pairs = <<>> THEN heap
    ELSE ApplyPairs(XTMergingManager_merge_devices(heap, Head(pairs)[1], Head(pairs)[2]),
                    Tail(pairs))

\* C28: for an id that n account maps hold, merge_devices folds the records
\* in account order: n-1 reconciliations, the i-th between the accumulator
\* (the first record, which holds the result so far) and record i+1, and none
\* for an id that one map holds.
C28_MergeIsAFoldInSourceOrder ==
    mm_pc = "register" =>
        \A d \in {x \in DeviceIds : data[0][x] # NoDevice} :
            LET list == RecordsOf(d)
                calls == MergedPairs(<<>>, list)
            IN /\ Len(calls) = IF list = <<>> THEN 0 ELSE Len(list) - 1
               /\ \A i \in 1..Len(calls) : calls[i] = <<list[1], list[i + 1]>>

\* C28, the calls of the source: every record is reconciled with every record
\* before it, n(n-1)/2 calls for n records, and the records after the merge
\* are those that these calls leave
C28_MergeReconcilesEveryPair ==
    mm_pc = "register" =>
        \A d \in {x \in DeviceIds : data[0][x] # NoDevice} :
            LET list == RecordsOf(d)
                calls == MergedPairs(<<>>, list)
            IN /\ 2 * Len(calls) = Len(list) * (Len(list) - 1)
               /\ Range(calls) =
                      {<<list[p[1]], list[p[2]]>> :
                          p \in {q \in (1..Len(list)) \X (1..Len(list)) : q[1] < q[2]}}
               /\ devices = ApplyPairs(premerge, calls)

\* C29: every job added with add_thread is started once, with immediate_start
\* or without: start_and_wait never ends with the RuntimeError of a second
\* start, and when it has ended every job of its batch was started and ran.
C29_EveryJobStartedExactlyOnce ==
    /\ result # "RuntimeError"
    /\ (pc = "idle" /\ result \in {"returned", "raised"}) =>
           \A j \in batch : thread[j] \in {"ok", "failed"}

\* C30: whatever max_concurrency is, 0 included, no job of the batch is still
\* waiting in thread_queue, not started, when start_and_wait returns.
C30_NoJobLeftUnstartedOnReturn ==
    [][Returns =>
          \A j \in batch : ~(j \in Range(thread_queue') /\ thread'[j] = "new")]_vars

Occurs(seq, x) == Cardinality({i \in 1..Len(seq) : seq[i] = x})

\* C31: one write to a field that is not excluded comes to an end, however
\* many registered maps hold a record with the id: no RecursionError is
\* raised, and every other record is assigned at most once.
C31_WriteTerminatesAssigningEachRecordOnce ==
    last_op.op = "write" =>
        /\ ~last_op.failed
        /\ \A o \in DOMAIN devices :
               o # last_op.rec => Occurs(last_op.assigned, o) <= 1

\* C31 for the values that are equal to themselves: the write ends, the
\* written record is assigned once and every other record at most once
C31_SelfEqualValueAssignedOnce ==
    (last_op.op = "write" /\ last_op.value # NaN) =>
        /\ ~last_op.failed
        /\ Occurs(last_op.assigned, last_op.rec) = 1
        /\ \A o \in DOMAIN devices : Occurs(last_op.assigned, o) <= 1

InLiveLog(n) == \E k \in 1..Len(live_log) : live_log[k].n = n

\* C32: with on_message called from other threads during update_device_cache
\* and its flush, every delivered message goes through the Live path once:
\* no message is in the Live log twice, the flush clears no message that the
\* Live path has not seen, and with the flush done and the router Live no
\* message is in the buffer or still on its way into it.
C32_InterleavedMessagesProcessedExactlyOnce ==
    /\ [](\A i, j \in 1..Len(live_log) :
              live_log[i].n = live_log[j].n => i = j)
    /\ [][(pending_messages' = <<>>) =>
              (\A i \in 1..Len(pending_messages) : InLiveLog(pending_messages[i].n))
         ]_vars
    /\ []((is_ready_for_messages /\ mm_pc = "idle") =>
              (pending_messages = <<>> /\ in_flight = {}))

\* entry i of a mapping has a status code and lists the code, as its status
\* code or as an alias
Lists(items, i, code) ==
    /\ items[i].item.status_code # None
    /\ \/ items[i].item.status_code = code
       \/ code \in Range(items[i].item.status_code_alias)

ListedCodes(items) ==
    {code \in Codes : \E i \in 1..Len(items) : Lists(items, i, code)}

\* the id of the last entry, in the mapping's order, that lists the code
LastListing(items, code) ==
    items[CHOOSE i \in 1..Len(items) :
              /\ Lists(items, i, code)
              /\ \A j \in 1..Len(items) : Lists(items, j, code) => j <= i].dp_id

\* C33: after a rebuild, for every mapping, also one where two ids share a
\* code: code_to_dpid[dpid_to_code[id]] = id for every id that has a status
\* code, and the entry of code_to_dpid[code] lists the code, for every code of
\* code_to_dpid.
C33_LookupsAreInverse ==
    \A r \in StrategyRecs :
        CachesValid(r) =>
            LET device == strategy_devices[r] IN
            /\ \A id \in DOMAIN device.dpid_to_code :
                   /\ device.dpid_to_code[id] \in DOMAIN device.code_to_dpid
                   /\ device.code_to_dpid[device.dpid_to_code[id]] = id
            /\ \A code \in DOMAIN device.code_to_dpid :
                   EntryHasCode(r, device.code_to_dpid[code], code)

\* C33, as the rebuild has it: dpid_to_code holds the status code of every id
\* that has one, code_to_dpid holds every code that such an entry lists and
\* maps it to the id of the last entry that lists it; so the entry of
\* code_to_dpid[code] lists the code, and code_to_dpid[dpid_to_code[id]] = id
\* unless a later entry lists the status code of id.
C33_CodeMapsToLastEntryListingIt ==
    \A r \in StrategyRecs :
        CachesValid(r) =>
            LET device == strategy_devices[r]
                items == ItemsOf(r)
            IN
            /\ DOMAIN device.dpid_to_code =
                   {id \in Keys(items) : GetItem(items, id).status_code # None}
            /\ \A id \in DOMAIN device.dpid_to_code :
                   /\ device.dpid_to_code[id] = GetItem(items, id).status_code
                   /\ (LastListing(items, device.dpid_to_code[id]) = id)
                          <=> (device.code_to_dpid[device.dpid_to_code[id]] = id)
            /\ DOMAIN device.code_to_dpid = ListedCodes(items)
            /\ \A code \in DOMAIN device.code_to_dpid :
                   /\ device.code_to_dpid[code] = LastListing(items, code)
                   /\ EntryHasCode(r, device.code_to_dpid[code], code)

\* the rebuild ran on a mapping whose two ids share the code "b", the alias
\* of id 1 and the status code of id 2, with id 2 stored first: "b" maps to
\* id 1 and the round trip of id 2 ends at id 1
C33_Witness ==
    /\ strategy_devices[Owner]._local_strategy_cache_version
           = strategy_devices[Owner]._local_strategy_version
    /\ CachesValid(Owner)
    /\ Len(ItemsOf(Owner)) = 2
    /\ ItemsOf(Owner)[1] = [dp_id |-> 2, item |-> Item("b", <<>>)]
    /\ ItemsOf(Owner)[2] = [dp_id |-> 1, item |-> Item("a", <<"b">>)]
    /\ strategy_devices[Owner].dpid_to_code[2] = "b"
    /\ strategy_devices[Owner].code_to_dpid["b"] = 1

\* the excluded attributes that a record is given from outside
Identity(device) ==
    <<device.id, device.device_map, device.device_source_priority,
      device.original_device, device.source>>

\* the excluded attributes that a record derives from its local strategy
StrategyBookkeeping(device) ==
    <<device._local_strategy, device._local_strategy_version,
      device._local_strategy_cache_version, device.code_to_dpid,
      device.dpid_to_code>>

\* the record is held, under the id, by a registered map
HeldByRegisteredMap(o, device_id) ==
    \E i \in 1..Len(registered_maps) : data[registered_maps[i]][device_id] = o

====
